---- MODULE Spec2Model ----
(***************************************************************************)
(* Timeline engine of STT-dashboard (src/stta/metrics/timeline.py):        *)
(* TimelineCalculator.compute_timeline_stats, compute_gaps, compute_turns. *)
(*                                                                         *)
(* Times are exact integers (ticks); the program's floats are read as      *)
(* exact rationals, so rounding below the 0.001 s tolerance is not         *)
(* modelled.  Apportioned time is kept in units of 1/ShareUnits tick so    *)
(* that duration * (1.0 / active_count) is exact.                          *)
(***************************************************************************)
EXTENDS Integers, Sequences, FiniteSets, TLC

\* ------------------------------------------------------------------ bounds

\* Largest number of rows of an utterance frame.
MaxUtt == 3

\* Largest number of rows of a transcript given to compute_turns alone.
MaxTurnUtt == 6

\* Largest number of rows of a transcript given to
\* compute_interaction_metrics.
MaxInteractionUtt == 4

\* The time points of the frames: the endpoints of the intervals of the
\* overlapping_utterances fixture, [0,5) [3,7) [8,12).  Six points give
\* every relative order the endpoints of MaxUtt = 3 intervals can have,
\* with segments of unequal lengths.
Times == {0, 3, 5, 7, 8, 12}

MaxT == CHOOSE m \in Times : \A t \in Times : t <= m

\* Speaker labels used by the frames (a subset of the schema's labels).
Speakers == {"AGENT", "CUSTOMER", "OTHER"}

\* A missing start_sec / end_sec / duration_sec (None, NaN in the frame).
NaN == 0 - 1

\* ------------------------------------------------------------------ state

VARIABLES
    calc,           \* the TimelineCalculator: [precision]
    utterances_df,  \* the frame the caller holds
    op,             \* the last operation: "new", "load", or a method name
    ret,            \* what the last method call returned
    first,          \* the first compute_timeline_stats call: <<>> or <<[df, stats]>>
    arg,            \* the argument of the last call that is not a frame
    batch,          \* the compute loop: the data read and the records made
    registry        \* MetricRegistry._metrics, in insertion order

vars == <<calc, utterances_df, op, ret, first, arg, batch, registry>>

\* ------------------------------------------------------------- arithmetic

Max(a, b) == IF a >= b THEN a ELSE b

Min(a, b) == IF a <= b THEN a ELSE b

RECURSIVE Gcd(_, _)
Gcd(a, b) == IF b = 0 THEN a ELSE Gcd(b, a % b)

RECURSIVE LcmUpTo(_)
LcmUpTo(n) == IF n <= 1 THEN 1
              ELSE LET l == LcmUpTo(n - 1) IN (l * n) \div Gcd(l, n)

\* Sub-tick units per tick: every 1/active_count is a whole number of them.
ShareUnits == LcmUpTo(Cardinality(Speakers))

RECURSIVE SumOver(_, _)
SumOver(f, S) == IF S = {} THEN 0
                 ELSE LET x == CHOOSE y \in S : TRUE
                      IN f[x] + SumOver(f, S \ {x})

\* sum(d.values()) of a dict d.
SumValues(d) == SumOver(d, DOMAIN d)

\* d[k] of a defaultdict whose default is 0.
Get(d, k) == IF k \in DOMAIN d THEN d[k] ELSE 0

\* d[k] += v of a defaultdict (creates the key).
AddTo(d, k, v) == [x \in (DOMAIN d) \cup {k} |->
                     IF x = k THEN Get(d, k) + v ELSE d[x]]

EmptyDict == [x \in {} |-> 0]

\* ----------------------------------------------------------------- frames

\* Rows whose valid_time is true: 0 <= start_sec < end_sec and
\* duration_sec = end_sec - start_sec (validate_time_range, reader.py).
ValidRowData ==
    {[speaker |-> s, start_sec |-> iv[1], end_sec |-> iv[2],
      duration_sec |-> iv[2] - iv[1], valid_time |-> TRUE] :
        s \in Speakers,
        iv \in {p \in Times \X Times : p[1] < p[2]}}

\* Rows whose valid_time is false: missing times (both None), or a
\* nonpositive duration (end_sec <= start_sec); duration_sec is None.
InvalidRowData ==
    {[speaker |-> s, start_sec |-> iv[1], end_sec |-> iv[2],
      duration_sec |-> NaN, valid_time |-> FALSE] :
        s \in Speakers,
        iv \in {<<NaN, NaN>>, <<MaxT, 0>>}}

RowData == ValidRowData \cup InvalidRowData

\* The rows of the two parties of a call.
DialogRowData == {r \in RowData : r.speaker \in {"AGENT", "CUSTOMER"}}

\* A row of a frame: the row data and its utterance_index.
Row(data, index) ==
    [utterance_index |-> index,
     speaker |-> data.speaker,
     start_sec |-> data.start_sec,
     end_sec |-> data.end_sec,
     duration_sec |-> data.duration_sec,
     valid_time |-> data.valid_time]

\* sort_values(by=['valid_time', 'start_sec'], ascending=[False, True],
\* na_position='last'): row a may stand before row b.
ReaderOrderLeq(a, b) ==
    IF a.valid_time # b.valid_time THEN a.valid_time
    ELSE IF a.start_sec = NaN THEN b.start_sec = NaN
    ELSE IF b.start_sec = NaN THEN TRUE
    ELSE a.start_sec <= b.start_sec

\* A variant of ValidRows that keeps every row.
ValidRowsUnfiltered(df) == df

\* utterances_df[utterances_df['valid_time']]: the valid rows, in frame order.
ValidRows(df) == SelectSeq(df, LAMBDA r : r.valid_time)

\* ------------------------------------------------- compute_timeline_stats

\* valid_df['end_sec'].max() - valid_df['start_sec'].min()
MaxEnd(rows) == CHOOSE m \in {rows[i].end_sec : i \in 1..Len(rows)} :
                    \A i \in 1..Len(rows) : rows[i].end_sec <= m

MinStart(rows) == CHOOSE m \in {rows[i].start_sec : i \in 1..Len(rows)} :
                      \A i \in 1..Len(rows) : rows[i].start_sec >= m

\* A variant of TimelineBounds that takes the bounds from the first and the
\* last row instead of the minimum and the maximum.
TimelineBoundsFirstToLast(rows) ==
    rows[Len(rows)].end_sec - rows[1].start_sec

TimelineBounds(rows) == MaxEnd(rows) - MinStart(rows)

\* One (time, delta, speaker) tuple.
Event(t, delta, speaker) == [t |-> t, delta |-> delta, speaker |-> speaker]

\* A variant of BuildEvents with the deltas exchanged: -1 for a start and
\* +1 for an end.
RECURSIVE BuildEventsExchanged(_)
BuildEventsExchanged(rows) ==
    IF rows = <<>> THEN <<>>
    ELSE <<Event(Head(rows).start_sec, 0 - 1, Head(rows).speaker),
           Event(Head(rows).end_sec, 1, Head(rows).speaker)>>
         \o BuildEventsExchanged(Tail(rows))

\* The events in the order they are appended: per row, start then end.
RECURSIVE BuildEvents(_)
BuildEvents(rows) ==
    IF rows = <<>> THEN <<>>
    ELSE <<Event(Head(rows).start_sec, 1, Head(rows).speaker),
           Event(Head(rows).end_sec, 0 - 1, Head(rows).speaker)>>
         \o BuildEvents(Tail(rows))

\* key=lambda x: (x[0], -x[1]) compared as tuples: a's key <= b's key.
EventKeyLeq(a, b) ==
    \/ a.t < b.t
    \/ a.t = b.t /\ (0 - a.delta) <= (0 - b.delta)

\* list.sort is stable: an element goes after every element whose key is
\* not greater than its own.
RECURSIVE InsertEvent(_, _)
InsertEvent(e, sorted) ==
    IF sorted = <<>> THEN <<e>>
    ELSE IF EventKeyLeq(Head(sorted), e)
         THEN <<Head(sorted)>> \o InsertEvent(e, Tail(sorted))
         ELSE <<e>> \o sorted

RECURSIVE SortEvents(_)
SortEvents(events) ==
    IF events = <<>> THEN <<>>
    ELSE InsertEvent(events[Len(events)],
                     SortEvents(SubSeq(events, 1, Len(events) - 1)))

\* A variant of SweepInit that keeps the accumulators of the previous call
\* (L, O and apportioned held on the calculator instead of in locals).
SweepInitStale ==
    IF first = <<>>
    THEN [active_speakers |-> EmptyDict, last_t |-> NaN,
          L |-> 0, O |-> 0, apportioned |-> EmptyDict]
    ELSE [active_speakers |-> EmptyDict, last_t |-> NaN,
          L |-> ret.L, O |-> ret.O, apportioned |-> ret.apportioned]

\* The sweep's variables before the first event.
SweepInit ==
    [active_speakers |-> EmptyDict, last_t |-> NaN,
     L |-> 0, O |-> 0, apportioned |-> EmptyDict]

\* The speakers whose active count is > 0.
ActiveSet(active_speakers) ==
    {spk \in DOMAIN active_speakers : active_speakers[spk] > 0}

\* A variant of ActiveCount that counts the active segments, so that two
\* overlapping utterances of one speaker count twice.
ActiveCountSegments(active_speakers) ==
    SumOver(active_speakers, ActiveSet(active_speakers))

\* sum(1 for cnt in active_speakers.values() if cnt > 0)
ActiveCount(active_speakers) == Cardinality(ActiveSet(active_speakers))

\* A variant of Apportion that gives the whole segment to one of the active
\* speakers and nothing to the others.
ApportionFirstOnly(apportioned, active, amount) ==
    IF active = {} THEN apportioned
    ELSE LET spk == CHOOSE x \in active : TRUE
         IN AddTo(apportioned, spk, amount * Cardinality(active))

\* apportioned[spk] += duration * share for every active speaker.
RECURSIVE Apportion(_, _, _)
Apportion(apportioned, active, amount) ==
    IF active = {} THEN apportioned
    ELSE LET spk == CHOOSE x \in active : TRUE
         IN Apportion(AddTo(apportioned, spk, amount), active \ {spk}, amount)

\* A variant of Share that credits every active speaker with the whole
\* segment.
ShareWhole(duration, active_count) == duration * ShareUnits

\* duration * (1.0 / active_count), in sub-tick units.
Share(duration, active_count) == duration * (ShareUnits \div active_count)

\* A variant of SweepStep that adds a segment to L once per active speaker.
SweepStepDoubleCounted(st, e) ==
    LET segment == st.last_t # NaN /\ e.t > st.last_t
        duration == e.t - st.last_t
        active == ActiveSet(st.active_speakers)
        active_count == ActiveCount(st.active_speakers)
    IN [active_speakers |-> AddTo(st.active_speakers, e.speaker, e.delta),
        last_t |-> e.t,
        L |-> IF segment /\ active_count >= 1
              THEN st.L + duration * active_count ELSE st.L,
        O |-> IF segment /\ active_count >= 2 THEN st.O + duration ELSE st.O,
        apportioned |->
            IF segment /\ active_count >= 1
            THEN Apportion(st.apportioned, active, Share(duration, active_count))
            ELSE st.apportioned]

\* A variant of SweepStep that adds a segment to O once per speaker beyond
\* the first.
SweepStepWeightedOverlap(st, e) ==
    LET segment == st.last_t # NaN /\ e.t > st.last_t
        duration == e.t - st.last_t
        active == ActiveSet(st.active_speakers)
        active_count == ActiveCount(st.active_speakers)
    IN [active_speakers |-> AddTo(st.active_speakers, e.speaker, e.delta),
        last_t |-> e.t,
        L |-> IF segment /\ active_count >= 1 THEN st.L + duration ELSE st.L,
        O |-> IF segment /\ active_count >= 2
              THEN st.O + duration * (active_count - 1) ELSE st.O,
        apportioned |->
            IF segment /\ active_count >= 1
            THEN Apportion(st.apportioned, active, Share(duration, active_count))
            ELSE st.apportioned]

\* A variant of SweepStep that updates the active speakers before it
\* processes the segment that ends at the event.
SweepStepUpdateFirst(st, e) ==
    LET segment == st.last_t # NaN /\ e.t > st.last_t
        duration == e.t - st.last_t
        updated == AddTo(st.active_speakers, e.speaker, e.delta)
        active == ActiveSet(updated)
        active_count == ActiveCount(updated)
    IN [active_speakers |-> updated,
        last_t |-> e.t,
        L |-> IF segment /\ active_count >= 1 THEN st.L + duration ELSE st.L,
        O |-> IF segment /\ active_count >= 2 THEN st.O + duration ELSE st.O,
        apportioned |->
            IF segment /\ active_count >= 1
            THEN Apportion(st.apportioned, active, Share(duration, active_count))
            ELSE st.apportioned]

\* One iteration of the loop over the sorted events: the segment
\* [last_t, t) is processed, then the active speakers are updated.
SweepStep(st, e) ==
    LET segment == st.last_t # NaN /\ e.t > st.last_t
        duration == e.t - st.last_t
        active == ActiveSet(st.active_speakers)
        active_count == ActiveCount(st.active_speakers)
    IN [active_speakers |-> AddTo(st.active_speakers, e.speaker, e.delta),
        last_t |-> e.t,
        L |-> IF segment /\ active_count >= 1 THEN st.L + duration ELSE st.L,
        O |-> IF segment /\ active_count >= 2 THEN st.O + duration ELSE st.O,
        apportioned |->
            IF segment /\ active_count >= 1
            THEN Apportion(st.apportioned, active, Share(duration, active_count))
            ELSE st.apportioned]

RECURSIVE Sweep(_, _)
Sweep(st, events) ==
    IF events = <<>> THEN st
    ELSE Sweep(SweepStep(st, Head(events)), Tail(events))

\* A variant of RawSpeaking that assigns the duration of a row instead of
\* adding it.
RawSpeakingAssigned(rows) ==
    [s \in {rows[i].speaker : i \in 1..Len(rows)} |->
        LET last == CHOOSE i \in 1..Len(rows) :
                       /\ rows[i].speaker = s
                       /\ \A j \in (i + 1)..Len(rows) : rows[j].speaker # s
        IN rows[last].duration_sec]

\* raw_speaking[row['speaker']] += row['duration_sec'] over the valid rows.
RECURSIVE RawSpeaking(_)
RawSpeaking(rows) ==
    IF rows = <<>> THEN EmptyDict
    ELSE AddTo(RawSpeaking(SubSeq(rows, 1, Len(rows) - 1)),
               rows[Len(rows)].speaker, rows[Len(rows)].duration_sec)

\* The value returned when no row is valid.
EmptyStats ==
    [T |-> 0, L |-> 0, O |-> 0, S |-> 0,
     apportioned |-> EmptyDict, raw_speaking |-> EmptyDict]

\* S = max(0.0, T - L)
Silence(T, L) == Max(0, T - L)

\* compute_timeline_stats(utterances_df), the sweep starting from init.
TimelineStatsFrom(init, df) ==
    LET valid_df == ValidRows(df)
    IN IF valid_df = <<>> THEN EmptyStats
       ELSE LET T == TimelineBounds(valid_df)
                end == Sweep(init, SortEvents(BuildEvents(valid_df)))
            IN [T |-> T, L |-> end.L, O |-> end.O, S |-> Silence(T, end.L),
                apportioned |-> end.apportioned,
                raw_speaking |-> RawSpeaking(valid_df)]

TimelineStats(df) == TimelineStatsFrom(SweepInit, df)

\* ----------------------------------------------------------- compute_gaps

\* The permutations of 1..n, as sequences, for every n a frame can have.
PermTable ==
    [n \in 0..MaxUtt |->
        {p \in [1..n -> 1..n] : \A i, j \in 1..n : i # j => p[i] # p[j]}]

Perms(n) == PermTable[n]

\* sort_values('start_sec') with the default, unstable, sort: every order of
\* the rows that is non-decreasing in start_sec may come out.
SortedByStart(rows) ==
    {[i \in 1..Len(rows) |-> rows[p[i]]] : p \in
        {q \in Perms(Len(rows)) :
            \A i \in 1..(Len(rows) - 1) :
                rows[q[i]].start_sec <= rows[q[i + 1]].start_sec}}

\* A variant of Gap that clamps the gap at 0.
GapClamped(curr, next_utt) ==
    [gap_sec |-> Max(0, next_utt.start_sec - curr.end_sec),
     prev_end |-> curr.end_sec,
     next_start |-> next_utt.start_sec,
     prev_speaker |-> curr.speaker,
     next_speaker |-> next_utt.speaker]

\* The gap record of two adjacent rows.
Gap(curr, next_utt) ==
    [gap_sec |-> next_utt.start_sec - curr.end_sec,
     prev_end |-> curr.end_sec,
     next_start |-> next_utt.start_sec,
     prev_speaker |-> curr.speaker,
     next_speaker |-> next_utt.speaker]

\* The loop over range(len(valid_df) - 1) on the sorted rows.
GapsOf(sorted) ==
    [i \in 1..(Len(sorted) - 1) |-> Gap(sorted[i], sorted[i + 1])]

\* ---------------------------------------------------------- compute_turns

\* sort_values('utterance_index'): the indices of a frame are distinct, so
\* the order is determined.
RECURSIVE InsertByIndex(_, _)
InsertByIndex(r, sorted) ==
    IF sorted = <<>> THEN <<r>>
    ELSE IF Head(sorted).utterance_index <= r.utterance_index
         THEN <<Head(sorted)>> \o InsertByIndex(r, Tail(sorted))
         ELSE <<r>> \o sorted

RECURSIVE SortByIndex(_)
SortByIndex(rows) ==
    IF rows = <<>> THEN <<>>
    ELSE InsertByIndex(rows[Len(rows)],
                       SortByIndex(SubSeq(rows, 1, Len(rows) - 1)))

\* The walk's variables after the first row.
TurnInit(row) ==
    [turns |-> <<>>, current_speaker |-> row.speaker,
     turn_start |-> row.start_sec, turn_end |-> row.end_sec, utt_count |-> 1]

\* The turn the walk's variables describe.
TurnRecord(w) ==
    [speaker |-> w.current_speaker,
     start_sec |-> w.turn_start,
     end_sec |-> w.turn_end,
     duration_sec |-> w.turn_end - w.turn_start,
     utterance_count |-> w.utt_count]

\* A variant of TurnStep that takes the end of the last utterance of the
\* run as the end of the turn.
TurnStepLastEnd(w, row) ==
    IF row.speaker = w.current_speaker
    THEN [w EXCEPT !.turn_end = row.end_sec,
                   !.utt_count = w.utt_count + 1]
    ELSE [turns |-> Append(w.turns, TurnRecord(w)),
          current_speaker |-> row.speaker,
          turn_start |-> row.start_sec,
          turn_end |-> row.end_sec,
          utt_count |-> 1]

\* A variant of TurnStep that does not start the count of a new turn at 1.
TurnStepNoReset(w, row) ==
    IF row.speaker = w.current_speaker
    THEN [w EXCEPT !.turn_end = Max(w.turn_end, row.end_sec),
                   !.utt_count = w.utt_count + 1]
    ELSE [turns |-> Append(w.turns, TurnRecord(w)),
          current_speaker |-> row.speaker,
          turn_start |-> row.start_sec,
          turn_end |-> row.end_sec,
          utt_count |-> w.utt_count + 1]

\* One iteration of the loop over rows 1..len-1.
TurnStep(w, row) ==
    IF row.speaker = w.current_speaker
    THEN [w EXCEPT !.turn_end = Max(w.turn_end, row.end_sec),
                   !.utt_count = w.utt_count + 1]
    ELSE [turns |-> Append(w.turns, TurnRecord(w)),
          current_speaker |-> row.speaker,
          turn_start |-> row.start_sec,
          turn_end |-> row.end_sec,
          utt_count |-> 1]

RECURSIVE TurnWalk(_, _)
TurnWalk(w, rows) ==
    IF rows = <<>> THEN w
    ELSE TurnWalk(TurnStep(w, Head(rows)), Tail(rows))

\* compute_turns(utterances_df)
Turns(df) ==
    LET valid_df == SortByIndex(ValidRows(df))
    IN IF valid_df = <<>> THEN <<>>
       ELSE LET w == TurnWalk(TurnInit(Head(valid_df)), Tail(valid_df))
            IN Append(w.turns, TurnRecord(w))

\* ---------------------------------------------------------------- actions

\* TimelineCalculator(precision=0.001): the tolerance, in ticks.
DefaultPrecision == 1

None == <<>>

Init ==
    /\ calc = [precision |-> DefaultPrecision]
    /\ utterances_df = <<>>
    /\ op = "new"
    /\ ret = None
    /\ first = <<>>
    /\ arg = None
    /\ batch = None
    /\ registry = <<>>

\* The frame of one call gains a row of the given kind, in the order the
\* reader gives the rows; utterance_index is the row's position.
AppendFrom(rows) ==
    /\ op \in {"new", "load"}
    /\ Len(utterances_df) < MaxUtt
    /\ \E data \in rows :
          /\ utterances_df # <<>> =>
                ReaderOrderLeq(utterances_df[Len(utterances_df)], data)
          /\ utterances_df' =
                Append(utterances_df, Row(data, Len(utterances_df)))
    /\ op' = "load"
    /\ UNCHANGED <<calc, ret, first, arg, batch, registry>>

\* A frame with up to three speakers.
AppendRow == AppendFrom(RowData)

\* A frame with the two parties of a call.
AppendDialogRow == AppendFrom(DialogRowData)

\* calc.compute_timeline_stats(utterances_df): the call and its return.
CallTimelineStats ==
    /\ op' = "compute_timeline_stats"
    /\ ret' = TimelineStats(utterances_df)
    /\ UNCHANGED <<calc, utterances_df, arg, batch, registry>>

ComputeTimelineStats ==
    /\ CallTimelineStats
    /\ UNCHANGED first

\* calc.compute_gaps(utterances_df)
ComputeGaps ==
    /\ op' = "compute_gaps"
    /\ \E sorted \in SortedByStart(ValidRows(utterances_df)) :
          ret' = GapsOf(sorted)
    /\ UNCHANGED <<calc, utterances_df, first, arg, batch, registry>>

\* calc.compute_turns(utterances_df)
ComputeTurns ==
    /\ op' = "compute_turns"
    /\ ret' = Turns(utterances_df)
    /\ UNCHANGED <<calc, utterances_df, first, arg, batch, registry>>

\* The compute loop on one call: timeline_stats first, on the rows of the
\* call, ...
TimelineStatsOfCall ==
    /\ op \in {"new", "load"}
    /\ ComputeTimelineStats

\* ... then the call metrics, which take the gaps of the same rows ...
GapsOfCall ==
    /\ op = "compute_timeline_stats"
    /\ ComputeGaps

\* ... and then their turns.
TurnsOfCall ==
    /\ op = "compute_gaps"
    /\ ComputeTurns

\* The three methods, in the order of the compute loop, on the two-party
\* frames of up to MaxUtt rows.
Next == AppendDialogRow \/ TimelineStatsOfCall \/ GapsOfCall \/ TurnsOfCall

Spec == Init /\ [][Next]_vars

\* compute_timeline_stats alone, on frames with up to three speakers.
NextTimeline == AppendRow \/ ComputeTimelineStats

SpecTimeline == Init /\ [][NextTimeline]_vars

\* compute_gaps alone, on two-party frames: the speakers of a gap record
\* are only copied from the rows.
NextGaps == AppendDialogRow \/ ComputeGaps

SpecGaps == Init /\ [][NextGaps]_vars

\* The frame with these (speaker, start, end) valid rows, in this order.
FrameOf(ivs) ==
    [i \in 1..Len(ivs) |->
        Row([speaker |-> ivs[i][1], start_sec |-> ivs[i][2],
             end_sec |-> ivs[i][3], duration_sec |-> ivs[i][3] - ivs[i][2],
             valid_time |-> TRUE], i - 1)]

\* tests/test_timeline.py, overlapping_utterances: [0,5) [3,7) [8,12).
OverlappingUtterances ==
    FrameOf(<< <<"AGENT", 0, 5>>, <<"CUSTOMER", 3, 7>>, <<"AGENT", 8, 12>> >>)

\* Three touching intervals, as simple_utterances ([0,5) [5,10) [10,15)),
\* on the time points of the model.
TouchingUtterances ==
    FrameOf(<< <<"AGENT", 0, 5>>, <<"CUSTOMER", 5, 8>>, <<"AGENT", 8, 12>> >>)

\* compute_turns alone, on frames of up to MaxTurnUtt rows in any order.
TurnRowData ==
    {[speaker |-> s, start_sec |-> iv[1], end_sec |-> iv[2],
      duration_sec |-> iv[2] - iv[1], valid_time |-> TRUE] :
        s \in {"AGENT", "CUSTOMER"},
        iv \in {<<0, 3>>, <<0, 5>>, <<3, 5>>}}
    \cup {[speaker |-> "OTHER", start_sec |-> NaN, end_sec |-> NaN,
           duration_sec |-> NaN, valid_time |-> FALSE]}

\* The transcript of one call, a row at a time; utterance_index is the
\* row's position.
AppendTurnRow ==
    /\ op \in {"new", "load"}
    /\ Len(utterances_df) < MaxTurnUtt
    /\ \E data \in TurnRowData :
          utterances_df' = Append(utterances_df, Row(data, Len(utterances_df)))
    /\ op' = "load"
    /\ UNCHANGED <<calc, ret, first, arg, batch, registry>>

NextTurns == AppendTurnRow \/ ComputeTurns

SpecTurns == Init /\ [][NextTurns]_vars

\* Repeated compute_timeline_stats calls on the frames of the test
\* fixtures, on the same or a fresh calculator.
PureFrames ==
    {SubSeq(f, 1, n) : f \in {OverlappingUtterances, TouchingUtterances},
                       n \in 0..3}

\* The caller turns to the utterances of another call.
LoadFrame ==
    /\ \E df \in PureFrames : utterances_df' = df
    /\ op' = "load"
    /\ UNCHANGED <<calc, ret, first, arg, batch, registry>>

\* TimelineCalculator(precision)
NewCalculator ==
    /\ \E p \in {DefaultPrecision, 2 * DefaultPrecision} :
          calc' = [precision |-> p]
    /\ op' = "new"
    /\ UNCHANGED <<utterances_df, ret, first, arg, batch, registry>>

\* compute_timeline_stats, the first call of the run being remembered.
RecordedTimelineStats ==
    /\ CallTimelineStats
    /\ first' = IF first = <<>>
                THEN <<[df |-> utterances_df, stats |-> ret']>>
                ELSE first

NextPure == LoadFrame \/ NewCalculator \/ RecordedTimelineStats

SpecPure == Init /\ [][NextPure]_vars

\* ---------------------------------------------------------------- helpers

AfterStats == op = "compute_timeline_stats"

AfterGaps == op = "compute_gaps"

AfterTurns == op = "compute_turns"

\* The rows of the frame with valid_time = true.
OnlyValid(df) == SelectSeq(df, LAMBDA r : r.valid_time)

\* ----------------------------------------------- pointwise reference

\* The unit cells [u, u+1) of the time axis.
Cells == 0..(MaxT - 1)

\* Row r covers the cell [u, u+1).
Covers(r, u) == r.start_sec <= u /\ u < r.end_sec

\* The speakers of the rows covering cell u.
SpeakersAtCell(valid, u) ==
    {valid[i].speaker : i \in {j \in 1..Len(valid) : Covers(valid[j], u)}}

\* For each cell, the number of distinct speakers with a valid utterance
\* covering it.
Coverage(df) ==
    LET valid == OnlyValid(df)
    IN [u \in Cells |-> Cardinality(SpeakersAtCell(valid, u))]

\* The cells covered by at least n distinct speakers.
CellsWith(df, n) == LET cov == Coverage(df) IN {u \in Cells : cov[u] >= n}

\* The elementary segments: pairs of consecutive distinct event times.
EventTimes(valid) ==
    {valid[i].start_sec : i \in 1..Len(valid)}
    \cup {valid[i].end_sec : i \in 1..Len(valid)}

Segments(valid) ==
    LET times == EventTimes(valid)
    IN {sg \in times \X times :
           /\ sg[1] < sg[2]
           /\ ~ \E t \in times : sg[1] < t /\ t < sg[2]}

\* The speakers with a valid utterance spanning the segment.
SpeakersOn(valid, sg) ==
    {valid[i].speaker :
        i \in {j \in 1..Len(valid) :
                  valid[j].start_sec <= sg[1] /\ sg[2] <= valid[j].end_sec}}

\* The sum over the segments on which speaker s is active of
\* length / number of active speakers, in sub-tick units.
RECURSIVE SegmentShares(_, _, _)
SegmentShares(valid, s, sgs) ==
    IF sgs = {} THEN 0
    ELSE LET sg == CHOOSE x \in sgs : TRUE
             on == SpeakersOn(valid, sg)
             here == IF s \in on
                     THEN ((sg[2] - sg[1]) * ShareUnits) \div Cardinality(on)
                     ELSE 0
         IN here + SegmentShares(valid, s, sgs \ {sg})

\* ----------------------------------------------------------------- claims

\* C1: after compute_timeline_stats on valid rows with 0 <= start < end,
\* L + S = T, and L never exceeds T (the clamp of S hides no deficit).
C1_SpeechPlusSilenceIsTotal ==
    AfterStats => /\ ret.L + ret.S = ret.T
                  /\ ret.L <= ret.T

\* A call with overlap and with silence has been computed.
C1_Witness ==
    /\ AfterStats
    /\ utterances_df = OverlappingUtterances
    /\ ret.T = 12 /\ ret.L = 11 /\ ret.S = 1

\* C2: the values of apportioned sum to L.
C2_ApportionedSumsToL ==
    AfterStats => SumValues(ret.apportioned) = ret.L * ShareUnits

\* Three speakers share a segment and the sum is still L.
C2_Witness ==
    /\ AfterStats
    /\ CellsWith(utterances_df, 3) # {}
    /\ ret.L > 0
    /\ SumValues(ret.apportioned) = ret.L * ShareUnits

\* C3: 0 <= O <= L, T >= 0, S >= 0 and every apportioned value is >= 0.
C3_RangesOfStats ==
    AfterStats => /\ 0 <= ret.O /\ ret.O <= ret.L
                  /\ ret.T >= 0
                  /\ ret.S >= 0
                  /\ \A s \in DOMAIN ret.apportioned : ret.apportioned[s] >= 0

\* Three speakers overlap, and the overlap stays below the speech time.
C3_Witness ==
    /\ AfterStats
    /\ CellsWith(utterances_df, 3) # {}
    /\ 0 < ret.O /\ ret.O < ret.L

\* C4: L is the length of time covered by at least one valid utterance, O
\* the length covered by valid utterances of at least two distinct
\* speakers, and T runs from the first covered cell to the last.
C4_AgreesWithPointwise ==
    AfterStats =>
        LET cov == Coverage(utterances_df)
            covered == {u \in Cells : cov[u] >= 1}
        IN covered # {} =>
              /\ ret.L = Cardinality(covered)
              /\ ret.O = Cardinality({u \in Cells : cov[u] >= 2})
              /\ \E lo, hi \in covered :
                    /\ \A u \in covered : lo <= u /\ u <= hi
                    /\ ret.T = hi + 1 - lo

\* The overlapping_utterances fixture gives T = 12 and O = 2.
C4_Witness ==
    /\ AfterStats
    /\ utterances_df = OverlappingUtterances
    /\ ret.T = 12 /\ ret.O = 2

\* Two rows share a sub-interval of positive length.
SharePositiveLength(a, b) ==
    Max(a.start_sec, b.start_sec) < Min(a.end_sec, b.end_sec)

\* No two valid utterances of different speakers overlap (they may touch).
NoCrossSpeakerOverlap(df) ==
    LET valid == OnlyValid(df)
    IN \A i, j \in 1..Len(valid) :
          valid[i].speaker # valid[j].speaker =>
              ~SharePositiveLength(valid[i], valid[j])

\* Every valid utterance begins exactly when the one before it ends.
Contiguous(df) ==
    LET valid == OnlyValid(df)
    IN \A i \in 1..(Len(valid) - 1) :
          valid[i + 1].start_sec = valid[i].end_sec

\* C5: touching intervals are not overlapping: with no positive-length
\* overlap between different speakers O = 0, and for contiguous touching
\* intervals T = L and S = 0.
C5_TouchingIsNotOverlap ==
    AfterStats =>
        /\ NoCrossSpeakerOverlap(utterances_df) => ret.O = 0
        /\ Contiguous(utterances_df) => ret.T = ret.L /\ ret.S = 0

\* Three touching intervals A, B, A have been computed.
C5_Witness ==
    /\ AfterStats
    /\ utterances_df = TouchingUtterances
    /\ ret.T = 12 /\ ret.L = 12 /\ ret.S = 0 /\ ret.O = 0

\* C6: apportioned[s] is the sum over the elementary segments on which s is
\* active of length / number of active speakers; a single utterance gives
\* T = L = duration, O = 0 and all of L to its speaker; two identical
\* intervals of different speakers give T = O = L, S = 0 and L/2 each.
C6_ExactEqualSplit ==
    AfterStats =>
        LET valid == OnlyValid(utterances_df)
            sgs == Segments(valid)
        IN /\ \A s \in Speakers :
                 Get(ret.apportioned, s) = SegmentShares(valid, s, sgs)
           /\ Len(valid) = 1 =>
                 /\ ret.T = valid[1].end_sec - valid[1].start_sec
                 /\ ret.L = ret.T
                 /\ ret.O = 0
                 /\ ret.apportioned =
                       [s \in {valid[1].speaker} |-> ret.L * ShareUnits]
           /\ ( /\ Len(valid) = 2
                /\ valid[1].speaker # valid[2].speaker
                /\ valid[1].start_sec = valid[2].start_sec
                /\ valid[1].end_sec = valid[2].end_sec ) =>
                 /\ ret.T = ret.L /\ ret.O = ret.L /\ ret.S = 0
                 /\ \A i \in 1..2 :
                       2 * ret.apportioned[valid[i].speaker] =
                           ret.L * ShareUnits

\* Two identical intervals of different speakers have been computed.
C6_Witness ==
    /\ AfterStats
    /\ utterances_df =
          FrameOf(<< <<"AGENT", 3, 8>>, <<"CUSTOMER", 3, 8>> >>)
    /\ ret.L = 5 /\ ret.O = 5
    /\ 2 * ret.apportioned["AGENT"] = 5 * ShareUnits

\* C7: with no valid row compute_timeline_stats returns T = L = O = S = 0
\* and empty mappings, and what compute_timeline_stats, compute_gaps and
\* compute_turns return is what they return when the frame holds the
\* valid rows alone.
C7_InvalidRowsAreIgnored ==
    /\ AfterStats /\ OnlyValid(utterances_df) = <<>> =>
          /\ ret.T = 0 /\ ret.L = 0 /\ ret.O = 0 /\ ret.S = 0
          /\ DOMAIN ret.apportioned = {}
          /\ DOMAIN ret.raw_speaking = {}
    /\ AfterStats => ret = TimelineStats(OnlyValid(utterances_df))
    /\ AfterGaps =>
          ret \in {GapsOf(sorted) :
                      sorted \in SortedByStart(OnlyValid(utterances_df))}
    /\ AfterTurns => ret = Turns(OnlyValid(utterances_df))

\* A frame with rows, none of them valid, has been computed.
C7_Witness ==
    /\ AfterStats
    /\ Len(utterances_df) >= 2
    /\ OnlyValid(utterances_df) = <<>>
    /\ \E i \in 1..Len(utterances_df) : utterances_df[i].start_sec # NaN
    /\ ret.T = 0 /\ DOMAIN ret.raw_speaking = {}

C9_GapsAreSignedDifferences ==
    AfterGaps =>
        LET valid == OnlyValid(utterances_df)
            n == Len(valid)
        IN /\ Len(ret) = Max(0, n - 1)
           /\ \E p \in Perms(n) :
                 /\ \A i \in 1..(n - 1) :
                       valid[p[i]].start_sec <= valid[p[i + 1]].start_sec
                 /\ \A i \in 1..(n - 1) :
                       /\ ret[i].gap_sec =
                             valid[p[i + 1]].start_sec - valid[p[i]].end_sec
                       /\ ret[i].prev_end = valid[p[i]].end_sec
                       /\ ret[i].next_start = valid[p[i + 1]].start_sec
                       /\ ret[i].prev_speaker = valid[p[i]].speaker
                       /\ ret[i].next_speaker = valid[p[i + 1]].speaker
           /\ \A i \in 1..Len(ret) :
                 ret[i].gap_sec < 0 <=> ret[i].next_start < ret[i].prev_end

\* Negative gaps between utterances of one speaker and of two speakers.
C9_Witness ==
    /\ AfterGaps
    /\ Len(ret) = 2
    /\ \E i, j \in 1..2 :
          /\ ret[i].gap_sec < 0 /\ ret[i].prev_speaker = ret[i].next_speaker
          /\ ret[j].gap_sec < 0 /\ ret[j].prev_speaker # ret[j].next_speaker

\* The number of valid rows that the turns before turn k hold.
RECURSIVE RowsBefore(_, _)
RowsBefore(turns, k) ==
    IF k <= 1 THEN 0
    ELSE RowsBefore(turns, k - 1) + turns[k - 1].utterance_count

\* The speakers of the valid rows, in frame (= utterance_index) order.
SpeakersOf(df) ==
    LET valid == OnlyValid(df) IN [i \in 1..Len(valid) |-> valid[i].speaker]

\* C10: the turns partition the valid rows, in utterance_index order, into
\* maximal runs of one speaker: consecutive turns differ in speaker, the
\* counts sum to the number of valid rows, and turn k holds the next
\* utterance_count rows, all of its speaker.
C10_TurnsPartitionRuns ==
    AfterTurns =>
        LET spk == SpeakersOf(utterances_df)
        IN /\ \A k \in 1..(Len(ret) - 1) : ret[k].speaker # ret[k + 1].speaker
           /\ RowsBefore(ret, Len(ret) + 1) = Len(spk)
           /\ \A k \in 1..Len(ret) :
                 /\ ret[k].utterance_count >= 1
                 /\ \A i \in (RowsBefore(ret, k) + 1)..RowsBefore(ret, k + 1) :
                       i <= Len(spk) /\ spk[i] = ret[k].speaker

\* Speakers [A, A, B, A, A, A] give the counts [(A, 2), (B, 1), (A, 3)].
C10_Witness ==
    /\ AfterTurns
    /\ SpeakersOf(utterances_df) =
          <<"AGENT", "AGENT", "CUSTOMER", "AGENT", "AGENT", "AGENT">>
    /\ [k \in 1..Len(ret) |-> <<ret[k].speaker, ret[k].utterance_count>>] =
          << <<"AGENT", 2>>, <<"CUSTOMER", 1>>, <<"AGENT", 3>> >>

\* --------------------------------------------------- _count_interruptions

\* The speaker labels of the schema.
SchemaSpeakers == Speakers \cup {"UNKNOWN"}

\* The time points of the frames given to the call-level counters: the
\* endpoints of the two overlapping intervals of the fixture, [0,5) [3,7).
ShortTimes == {0, 3, 5, 7}

\* Rows of every speaker label over the short time points, and a row with
\* missing times.
InterruptionRowData ==
    {[speaker |-> s, start_sec |-> iv[1], end_sec |-> iv[2],
      duration_sec |-> iv[2] - iv[1], valid_time |-> TRUE] :
        s \in SchemaSpeakers,
        iv \in {p \in ShortTimes \X ShortTimes : p[1] < p[2]}}
    \cup
    {[speaker |-> "UNKNOWN", start_sec |-> NaN, end_sec |-> NaN,
      duration_sec |-> NaN, valid_time |-> FALSE]}

\* interruptions = {'total': 0, 'AGENT': 0, 'CUSTOMER': 0, 'OTHER': 0,
\*                  'UNKNOWN': 0}
InterruptionsInit == [k \in {"total"} \cup SchemaSpeakers |-> 0]

\* A variant of InterruptionStep that counts the interruption for the
\* speaker who is interrupted.
InterruptionStepBlamesEarlier(interruptions, curr, next_utt) ==
    IF next_utt.start_sec < curr.end_sec /\ next_utt.speaker # curr.speaker
    THEN LET counted == [interruptions EXCEPT !["total"] = @ + 1]
         IN IF curr.speaker \in DOMAIN counted
            THEN [counted EXCEPT ![curr.speaker] = @ + 1]
            ELSE counted
    ELSE interruptions

\* A variant of InterruptionStep that counts every change of speaker,
\* overlapping or not.
InterruptionStepAnyChange(interruptions, curr, next_utt) ==
    IF next_utt.speaker # curr.speaker
    THEN LET counted == [interruptions EXCEPT !["total"] = @ + 1]
         IN IF next_utt.speaker \in DOMAIN counted
            THEN [counted EXCEPT ![next_utt.speaker] = @ + 1]
            ELSE counted
    ELSE interruptions

\* One iteration of the loop over the adjacent pairs.
InterruptionStep(interruptions, curr, next_utt) ==
    IF next_utt.start_sec < curr.end_sec /\ next_utt.speaker # curr.speaker
    THEN LET counted == [interruptions EXCEPT !["total"] = @ + 1]
         IN IF next_utt.speaker \in DOMAIN counted
            THEN [counted EXCEPT ![next_utt.speaker] = @ + 1]
            ELSE counted
    ELSE interruptions

\* The counters after the first i pairs of the sorted rows.
RECURSIVE InterruptionsUpTo(_, _)
InterruptionsUpTo(sorted, i) ==
    IF i <= 0 THEN InterruptionsInit
    ELSE InterruptionStep(InterruptionsUpTo(sorted, i - 1),
                          sorted[i], sorted[i + 1])

\* The loop over range(len(valid_df) - 1) on the sorted rows.
Interruptions(sorted) == InterruptionsUpTo(sorted, Len(sorted) - 1)

\* _count_interruptions(utterances_df)
CountInterruptions ==
    /\ op' = "_count_interruptions"
    /\ \E sorted \in SortedByStart(ValidRows(utterances_df)) :
          ret' = Interruptions(sorted)
    /\ UNCHANGED <<calc, utterances_df, first, arg, batch, registry>>

AppendInterruptionRow == AppendFrom(InterruptionRowData)

\* _count_interruptions alone, on frames of every speaker label.
NextInterruptions == AppendInterruptionRow \/ CountInterruptions

SpecInterruptions == Init /\ [][NextInterruptions]_vars

AfterInterruptions == op = "_count_interruptions"

\* C11: in some start_sec order of the valid rows, total is the number of
\* adjacent pairs (i, i+1) with start(i+1) < end(i) and different speakers,
\* and the counter of each speaker is the number of those pairs in which
\* that speaker is the later one.
C11_InterruptionsGoToTheLater ==
    AfterInterruptions =>
        LET valid == OnlyValid(utterances_df)
            n == Len(valid)
        IN \E p \in Perms(n) :
              /\ \A i \in 1..(n - 1) :
                    valid[p[i]].start_sec <= valid[p[i + 1]].start_sec
              /\ LET pairs == {i \in 1..(n - 1) :
                                 /\ valid[p[i + 1]].start_sec
                                        < valid[p[i]].end_sec
                                 /\ valid[p[i + 1]].speaker
                                        # valid[p[i]].speaker}
                 IN /\ ret["total"] = Cardinality(pairs)
                    /\ \A s \in SchemaSpeakers :
                          ret[s] = Cardinality(
                              {i \in pairs : valid[p[i + 1]].speaker = s})

\* Two interruptions, by two speakers, of a speaker who interrupts nobody.
C11_Witness ==
    /\ AfterInterruptions
    /\ ret["total"] = 2
    /\ ret["CUSTOMER"] = 1
    /\ ret["UNKNOWN"] = 1
    /\ ret["AGENT"] = 0
    /\ \E i \in 1..Len(utterances_df) : utterances_df[i].speaker = "AGENT"

\* -------------------------------------------- compute_interaction_metrics

\* A fraction n / d of two integers, d > 0, in lowest terms.
Ratio(n, d) == [num |-> n \div Gcd(n, d), den |-> d \div Gcd(n, d)]

\* The float 0.0.
Zero == [num |-> 0, den |-> 1]

\* rows without its i-th row.
RemoveAt(rows, i) == SubSeq(rows, 1, i - 1) \o SubSeq(rows, i + 1, Len(rows))

\* sort_values('start_sec') on frames of any length: the orders that are
\* non-decreasing in start_sec, built front to back (any row of least
\* start_sec may come first).
RECURSIVE StartOrders(_)
StartOrders(rows) ==
    IF rows = <<>> THEN {<<>>}
    ELSE LET least == MinStart(rows)
         IN UNION {{<<rows[i]>> \o rest :
                        rest \in StartOrders(RemoveAt(rows, i))} :
                   i \in {j \in 1..Len(rows) : rows[j].start_sec = least}}

\* gaps: next start_sec - current end_sec for every adjacent pair.
InteractionGaps(sorted) ==
    [i \in 1..(Len(sorted) - 1) |->
        sorted[i + 1].start_sec - sorted[i].end_sec]

\* len([g for g in gaps if g > 3.0])
LongPausesCount(gaps) == Cardinality({i \in 1..Len(gaps) : gaps[i] > 3})

\* len([g for g in gaps if g < 0.5]): on whole ticks, g < 0.5 is g <= 0.
GapInterruptionsCount(gaps) ==
    Cardinality({i \in 1..Len(gaps) : gaps[i] <= 0})

\* current_speaker = None
NoSpeaker == "None"

\* The variables of the monologue loop before the first row.
MonologueInit ==
    [monologue_segments |-> 0, current_speaker |-> NoSpeaker,
     consecutive_count |-> 0]

\* One iteration of the loop over valid_utts.iterrows().
MonologueStep(m, row) ==
    IF row.speaker = m.current_speaker
    THEN [m EXCEPT !.consecutive_count = @ + 1]
    ELSE [monologue_segments |->
              IF m.consecutive_count >= 3 THEN m.monologue_segments + 1
              ELSE m.monologue_segments,
          current_speaker |-> row.speaker,
          consecutive_count |-> 1]

RECURSIVE MonologueWalk(_, _)
MonologueWalk(m, rows) ==
    IF rows = <<>> THEN m
    ELSE MonologueWalk(MonologueStep(m, Head(rows)), Tail(rows))

\* The loop and the check of the last segment.
MonologueSegments(sorted) ==
    LET m == MonologueWalk(MonologueInit, sorted)
    IN IF m.consecutive_count >= 3 THEN m.monologue_segments + 1
       ELSE m.monologue_segments

\* valid_utts.groupby('speaker').size().to_dict().get(speaker, 0)
SpeakerTurns(rows, speaker) ==
    Cardinality({i \in 1..Len(rows) : rows[i].speaker = speaker})

\* min(a, c) / max(a, c) if max(a, c) > 0 else 0.0
TurnBalance(agent_turns, customer_turns) ==
    IF Max(agent_turns, customer_turns) > 0
    THEN Ratio(Min(agent_turns, customer_turns),
               Max(agent_turns, customer_turns))
    ELSE Zero

\* _empty_interaction_metrics(call_id)
EmptyInteractionMetrics ==
    [long_pauses_count |-> 0, interruptions_count |-> 0,
     monologue_segments |-> 0, turn_taking_balance |-> Zero,
     agent_turns |-> 0, customer_turns |-> 0]

\* The record returned for the sorted valid rows.  The averages, medians
\* and deviation of the gaps and of the response delays are floating-point
\* statistics of the same gaps and are not represented.
InteractionMetrics(sorted) ==
    LET gaps == InteractionGaps(sorted)
        agent_turns == SpeakerTurns(sorted, "AGENT")
        customer_turns == SpeakerTurns(sorted, "CUSTOMER")
    IN [long_pauses_count |-> LongPausesCount(gaps),
        interruptions_count |-> GapInterruptionsCount(gaps),
        monologue_segments |-> MonologueSegments(sorted),
        turn_taking_balance |-> TurnBalance(agent_turns, customer_turns),
        agent_turns |-> agent_turns,
        customer_turns |-> customer_turns]

\* compute_interaction_metrics(utterances_df, call_id)
ComputeInteractionMetrics ==
    /\ op' = "compute_interaction_metrics"
    /\ LET valid_utts == ValidRows(utterances_df)
       IN IF Len(valid_utts) < 2
          THEN ret' = EmptyInteractionMetrics
          ELSE \E sorted \in StartOrders(valid_utts) :
                  ret' = InteractionMetrics(sorted)
    /\ UNCHANGED <<calc, utterances_df, first, arg, batch, registry>>

\* The transcript of one call, a row at a time, in any order;
\* utterance_index is the row's position.
AppendInteractionRow ==
    /\ op \in {"new", "load"}
    /\ Len(utterances_df) < MaxInteractionUtt
    /\ \E data \in TurnRowData :
          utterances_df' = Append(utterances_df, Row(data, Len(utterances_df)))
    /\ op' = "load"
    /\ UNCHANGED <<calc, ret, first, arg, batch, registry>>

\* compute_interaction_metrics and compute_turns on the transcripts of up
\* to MaxInteractionUtt rows in any order.
NextInteraction ==
    AppendInteractionRow \/ ComputeInteractionMetrics \/ ComputeTurns

SpecInteraction == Init /\ [][NextInteraction]_vars

AfterInteraction == op = "compute_interaction_metrics"

\* The turns of compute_turns that hold at least three utterances.
LongTurns(df) ==
    LET turns == Turns(df)
    IN {k \in 1..Len(turns) : turns[k].utterance_count >= 3}

\* C12: on a frame with at least 2 valid rows, monologue_segments is the
\* number of turns compute_turns returns for the frame whose
\* utterance_count is >= 3.
C12_MonologuesAreLongTurns ==
    AfterInteraction /\ Len(OnlyValid(utterances_df)) >= 2 =>
        ret.monologue_segments = Cardinality(LongTurns(utterances_df))

\* The number of turns of compute_turns that a speaker has.
TurnsOfSpeaker(df, speaker) ==
    LET turns == Turns(df)
    IN Cardinality({k \in 1..Len(turns) : turns[k].speaker = speaker})

\* C13: turn_taking_balance is min(a, c) / max(a, c) for the numbers a and
\* c of turns (maximal same-speaker runs) of AGENT and of CUSTOMER, it is 0
\* when neither has a turn, and it lies in [0, 1].
C13_BalanceIsOverTurns ==
    AfterInteraction =>
        LET a == TurnsOfSpeaker(utterances_df, "AGENT")
            c == TurnsOfSpeaker(utterances_df, "CUSTOMER")
            balance == ret.turn_taking_balance
        IN /\ Max(a, c) > 0 =>
                 balance.num * Max(a, c) = Min(a, c) * balance.den
           /\ Max(a, c) = 0 => balance.num = 0
           /\ 0 <= balance.num /\ balance.num <= balance.den

\* --------------------------------------------------- compute_call_metrics

\* float('inf')
Infinity == [num |-> 1, den |-> 0]

\* x / T if T > 0 else 0.0
RatioOfTotal(x, T) == IF T > 0 THEN Ratio(x, T) ELSE Zero

\* L / S if S > 0 else float('inf')
SpeechToSilence(L, S) == IF S > 0 THEN Ratio(L, S) ELSE Infinity

\* sum(1 for g in gap_values if g < 0), 0 without gaps
NegativeGaps(gaps) ==
    Cardinality({i \in 1..Len(gaps) : gaps[i].gap_sec < 0})

\* max(0, total_turns - 1)
SpeakerSwitches(total_turns) == Max(0, total_turns - 1)

\* (speaker_switches / (T / 60)) if T > 0 else 0.0
SwitchesPerMin(speaker_switches, T) ==
    IF T > 0 THEN Ratio(60 * speaker_switches, T) ELSE Zero

\* The record compute_call_metrics returns, given the order sort_values
\* gives the valid rows (the same in compute_gaps and _count_interruptions,
\* which sort equal frames).  The means, medians and percentiles of the
\* durations, words and gaps are floating-point statistics and are not
\* represented.
CallMetrics(df, timeline_stats, sorted) ==
    LET T == timeline_stats.T
        L == timeline_stats.L
        O == timeline_stats.O
        S == timeline_stats.S
        total_turns == Len(Turns(df))
        interruptions == Interruptions(sorted)
    IN [total_duration |-> T,
        speech_time |-> L,
        silence_time |-> S,
        overlap_time |-> O,
        silence_ratio |-> RatioOfTotal(S, T),
        speech_ratio |-> RatioOfTotal(L, T),
        overlap_ratio |-> RatioOfTotal(O, T),
        speech_to_silence_ratio |-> SpeechToSilence(L, S),
        total_utterances |-> Len(df),
        valid_utterances |-> Len(ValidRows(df)),
        invalid_utterances |-> Len(df) - Len(ValidRows(df)),
        negative_gaps_count |-> NegativeGaps(GapsOf(sorted)),
        total_turns |-> total_turns,
        speaker_switches |-> SpeakerSwitches(total_turns),
        switches_per_min |-> SwitchesPerMin(SpeakerSwitches(total_turns), T),
        interruptions_total |-> interruptions["total"],
        interruptions_by_agent |-> interruptions["AGENT"],
        interruptions_by_customer |-> interruptions["CUSTOMER"],
        interruptions_by_other |-> interruptions["OTHER"]]

\* registry.compute('call_metrics', ...) with the timeline_stats of the
\* call's rows.
ComputeCallMetrics ==
    /\ op' = "compute_call_metrics"
    /\ \E sorted \in SortedByStart(ValidRows(utterances_df)) :
          ret' = CallMetrics(utterances_df, TimelineStats(utterances_df),
                             sorted)
    /\ UNCHANGED <<calc, utterances_df, first, arg, batch, registry>>

\* compute_call_metrics on the two-party frames of up to MaxUtt rows.
NextCall == AppendDialogRow \/ ComputeCallMetrics

SpecCall == Init /\ [][NextCall]_vars

AfterCallMetrics == op = "compute_call_metrics"

\* C14: when T = 0 the five ratios of compute_call_metrics are 0, and when
\* T > 0 silence_ratio + speech_ratio = 1.
C14_RatiosAreZeroWithoutTime ==
    AfterCallMetrics =>
        /\ ret.total_duration = 0 =>
              /\ ret.silence_ratio = Zero
              /\ ret.speech_ratio = Zero
              /\ ret.overlap_ratio = Zero
              /\ ret.speech_to_silence_ratio = Zero
              /\ ret.switches_per_min = Zero
        /\ ret.total_duration > 0 =>
              ret.silence_ratio.num * ret.speech_ratio.den
                + ret.speech_ratio.num * ret.silence_ratio.den
              = ret.silence_ratio.den * ret.speech_ratio.den

\* ------------------------------------------------ compute_speaker_metrics

\* Largest number of values given to _compute_gini alone.
MaxGiniLen == 3

\* The values given to _compute_gini alone: 0 and the lengths of the
\* fixture's utterances and segments.
GiniValues == {0, 2, 3, 4, 5}

\* sorted(values): an element goes after every element not greater than it.
RECURSIVE InsertNumber(_, _)
InsertNumber(v, sorted) ==
    IF sorted = <<>> THEN <<v>>
    ELSE IF Head(sorted) <= v
         THEN <<Head(sorted)>> \o InsertNumber(v, Tail(sorted))
         ELSE <<v>> \o sorted

RECURSIVE SortNumbers(_)
SortNumbers(values) ==
    IF values = <<>> THEN <<>>
    ELSE InsertNumber(values[Len(values)],
                      SortNumbers(SubSeq(values, 1, Len(values) - 1)))

\* cumsum after the loop over enumerate(values, start=1): the sum of i * val.
RECURSIVE RankedSum(_, _)
RankedSum(values, i) ==
    IF i <= 0 THEN 0 ELSE RankedSum(values, i - 1) + i * values[i]

\* sum(values)
RECURSIVE SumSeq(_)
SumSeq(values) ==
    IF values = <<>> THEN 0 ELSE Head(values) + SumSeq(Tail(values))

\* A variant of Gini that ranks the sorted values from 0.
GiniRanksFromZero(values) ==
    IF Len(values) < 2 THEN Zero
    ELSE LET positive == SelectSeq(values, LAMBDA v : v > 0)
         IN IF Len(positive) < 2 THEN Zero
            ELSE LET sorted == SortNumbers(positive)
                     n == Len(sorted)
                 IN Ratio(2 * (RankedSum(sorted, n) - SumSeq(sorted))
                              - (n + 1) * SumSeq(sorted),
                          n * SumSeq(sorted))

\* A variant of Gini that keeps the zero values.
GiniKeepsZeros(values) ==
    IF Len(values) < 2 \/ SumSeq(values) = 0 THEN Zero
    ELSE LET sorted == SortNumbers(values)
             n == Len(sorted)
         IN Ratio(2 * RankedSum(sorted, n) - (n + 1) * SumSeq(sorted),
                  n * SumSeq(sorted))

\* _compute_gini(values):
\* (2 * cumsum) / (n * total) - (n + 1) / n, as one fraction.
Gini(values) ==
    IF Len(values) < 2 THEN Zero
    ELSE LET positive == SelectSeq(values, LAMBDA v : v > 0)
         IN IF Len(positive) < 2 THEN Zero
            ELSE LET sorted == SortNumbers(positive)
                     n == Len(sorted)
                 IN Ratio(2 * RankedSum(sorted, n)
                              - (n + 1) * SumSeq(sorted),
                          n * SumSeq(sorted))

\* list(d.values()) of a dict d.
RECURSIVE DictValues(_)
DictValues(d) ==
    IF DOMAIN d = {} THEN <<>>
    ELSE LET k == CHOOSE x \in DOMAIN d : TRUE
         IN <<d[k]>> \o DictValues([x \in (DOMAIN d) \ {k} |-> d[x]])

\* valid_df['speaker'].unique(): the speakers in order of first appearance.
RECURSIVE UniqueSpeakers(_)
UniqueSpeakers(rows) ==
    IF rows = <<>> THEN <<>>
    ELSE LET before == UniqueSpeakers(SubSeq(rows, 1, Len(rows) - 1))
             speaker == rows[Len(rows)].speaker
         IN IF \E i \in 1..Len(before) : before[i] = speaker
            THEN before ELSE Append(before, speaker)

\* speaker_turns['duration_sec'].max(), 0.0 without turns
MaxTurnDuration(turns) ==
    IF turns = <<>> THEN 0
    ELSE CHOOSE m \in {turns[k].duration_sec : k \in 1..Len(turns)} :
             \A k \in 1..Len(turns) : turns[k].duration_sec <= m

\* The record of one speaker, before the Gini coefficient is added.  Times
\* in apportioned are in sub-tick units.  The means and the word counts are
\* not represented.
SpeakerRecord(speaker, valid_df, turns, timeline_stats) ==
    LET speaker_turns == SelectSeq(turns, LAMBDA t : t.speaker = speaker)
        raw_time == Get(timeline_stats.raw_speaking, speaker)
        apportioned_time == Get(timeline_stats.apportioned, speaker)
        L == timeline_stats.L
    IN [speaker |-> speaker,
        raw_speaking_time |-> raw_time,
        apportioned_speaking_time |-> apportioned_time,
        raw_proportion |-> IF L > 0 THEN Ratio(raw_time, L) ELSE Zero,
        apportioned_proportion |->
            IF L > 0 THEN Ratio(apportioned_time, L * ShareUnits) ELSE Zero,
        turn_count |-> Len(speaker_turns),
        max_turn_duration |-> MaxTurnDuration(speaker_turns),
        utterance_count |-> SpeakerTurns(valid_df, speaker)]

\* compute_speaker_metrics(call_id, utterances_df, timeline_stats)
SpeakerMetrics(df, timeline_stats) ==
    LET valid_df == ValidRows(df)
        speakers == UniqueSpeakers(valid_df)
        turns == Turns(df)
        gini == Gini(DictValues(timeline_stats.apportioned))
    IN [i \in 1..Len(speakers) |->
          [dialog_balance_gini |-> gini] @@
          SpeakerRecord(speakers[i], valid_df, turns, timeline_stats)]

\* registry.compute('speaker_metrics', ...) with the timeline_stats of the
\* call's rows.
ComputeSpeakerMetrics ==
    /\ op' = "compute_speaker_metrics"
    /\ ret' = SpeakerMetrics(utterances_df, TimelineStats(utterances_df))
    /\ UNCHANGED <<calc, utterances_df, first, arg, batch, registry>>

\* _compute_gini(values) called on its own, with no frame in hand, on a
\* list of up to MaxGiniLen values.
ComputeGini ==
    /\ utterances_df = <<>>
    /\ \E n \in 0..MaxGiniLen : \E values \in [1..n -> GiniValues] :
          /\ arg' = values
          /\ ret' = Gini(values)
    /\ op' = "_compute_gini"
    /\ UNCHANGED <<calc, utterances_df, first, batch, registry>>

\* compute_speaker_metrics on frames of up to three speakers, and
\* _compute_gini alone.
NextSpeaker == AppendRow \/ ComputeSpeakerMetrics \/ ComputeGini

SpecSpeaker == Init /\ [][NextSpeaker]_vars

AfterGini == op = "_compute_gini"

AfterSpeakerMetrics == op = "compute_speaker_metrics"

Abs(x) == IF x < 0 THEN 0 - x ELSE x

\* The values given to _validate_invariants alone, in ticks.
CheckedValues == {0 - 2, 0, 2, 4}

\* The warnings _validate_invariants logs for the given values.
InvariantWarnings(precision, T, L, O, S, apportioned) ==
    {w \in {"L + S != T", "O > L", "apportioned != L"} :
        \/ w = "L + S != T" /\ Abs((L + S) - T) > precision
        \/ w = "O > L" /\ O > L + precision
        \/ w = "apportioned != L"
              /\ Abs(SumValues(apportioned) - L) > precision}

\* self._validate_invariants(T, L, O, S, apportioned) called on its own,
\* with no frame in hand: what it logs (it returns None and raises nothing).
ValidateInvariants ==
    /\ utterances_df = <<>>
    /\ \E T, L, O, S, a \in CheckedValues :
          /\ arg' = [T |-> T, L |-> L, O |-> O, S |-> S,
                     apportioned |-> [spk \in {"AGENT"} |-> a]]
          /\ ret' = InvariantWarnings(calc.precision, T, L, O, S,
                                      [spk \in {"AGENT"} |-> a])
    /\ op' = "_validate_invariants"
    /\ UNCHANGED <<calc, utterances_df, first, batch, registry>>

\* _validate_invariants on calculators of either precision.
NextValidate == ValidateInvariants \/ NewCalculator

SpecValidate == Init /\ [][NextValidate]_vars

AfterValidate == op = "_validate_invariants"

MaxTimecodeParts == 4

\* The values of the components of the timecode strings.
Components == {0, 1, 2, 5, 30, 70}

\* The digits after the decimal point of the timecode strings: none, "5"
\* and "250".
Fractions == {<<>>, <<5>>, <<2, 5, 0>>}

\* A timecode string: an optional "-", the colon-separated runs of digits
\* (as numbers) and the digits after the decimal point.  The empty string
\* has no component.
Timecode(sign, parts, frac) == [sign |-> sign, parts |-> parts, frac |-> frac]

\* raise ValueError(...)
ValueError == [raised |-> TRUE, value |-> NaN]

\* return total_seconds, in milliseconds
Returned(ms) == [raised |-> FALSE, value |-> ms]

\* int((ms + "000")[:3])
Milliseconds(frac) ==
    LET padded == SubSeq(frac \o <<0, 0, 0>>, 1, 3)
    IN IF frac = <<>> THEN 0
       ELSE 100 * padded[1] + 10 * padded[2] + padded[3]

\* The groups h, m, s of the pattern
\* ^(-?)(?:(\d+):)?(?:(\d+):)?(\d+)(?:\.(\d+))?$ on a string of one to three
\* components: the first optional group takes the first component whenever
\* a colon follows it.  NaN stands for a group that did not take part.
MatchGroups(parts) ==
    [h |-> IF Len(parts) >= 2 THEN parts[1] ELSE NaN,
     m |-> IF Len(parts) >= 3 THEN parts[2] ELSE NaN,
     s |-> parts[Len(parts)]]

\* parse_timecode(value) for a string value.
ParseTimecodeOf(tc) ==
    IF tc.parts = <<>> \/ Len(tc.parts) > 3 THEN ValueError
    ELSE IF tc.sign = "-" THEN ValueError
    ELSE LET g == MatchGroups(tc.parts)
             hours == IF g.h # NaN THEN g.h ELSE 0
             minutes == IF g.m # NaN THEN g.m ELSE 0
             seconds_int == g.s
         IN IF minutes >= 60 THEN ValueError
            ELSE IF seconds_int >= 60 THEN ValueError
            ELSE Returned((hours * 3600 + minutes * 60 + seconds_int) * 1000
                          + Milliseconds(tc.frac))

\* The caller takes up a timecode string; its components follow.
NewTimecode ==
    /\ op = "new"
    /\ \E sign \in {"", "-"}, frac \in Fractions :
          arg' = Timecode(sign, <<>>, frac)
    /\ op' = "timecode"
    /\ UNCHANGED <<calc, utterances_df, ret, first, batch, registry>>

\* The next colon-separated component of the string.
AppendComponent ==
    /\ op = "timecode"
    /\ Len(arg.parts) < MaxTimecodeParts
    /\ \E c \in Components : arg' = [arg EXCEPT !.parts = Append(@, c)]
    /\ UNCHANGED <<calc, utterances_df, op, ret, first, batch, registry>>

\* parse_timecode(value)
ParseTimecode ==
    /\ op = "timecode"
    /\ ret' = ParseTimecodeOf(arg)
    /\ op' = "parse_timecode"
    /\ UNCHANGED <<calc, utterances_df, first, arg, batch, registry>>

NextTimecode == NewTimecode \/ AppendComponent \/ ParseTimecode

SpecTimecode == Init /\ [][NextTimecode]_vars

AfterParse == op = "parse_timecode"

\* C18: a two-component 'M:SS' value yields M * 60 + SS (+ mmm / 1000), a
\* three-component 'H:MM:SS' value yields H * 3600 + MM * 60 + SS
\* (+ mmm / 1000), and a minutes or seconds component >= 60 is rejected
\* with ValueError.
C18_ComponentsByPosition ==
    AfterParse /\ arg.sign = "" =>
        LET parts == arg.parts
            ms == Milliseconds(arg.frac)
        IN /\ Len(parts) = 2 =>
                 IF parts[1] >= 60 \/ parts[2] >= 60 THEN ret.raised
                 ELSE /\ ~ret.raised
                      /\ ret.value = (parts[1] * 60 + parts[2]) * 1000 + ms
           /\ Len(parts) = 3 =>
                 IF parts[2] >= 60 \/ parts[3] >= 60 THEN ret.raised
                 ELSE /\ ~ret.raised
                      /\ ret.value =
                            (parts[1] * 3600 + parts[2] * 60 + parts[3]) * 1000
                            + ms

\* ---------------------------------------- CSVReader._extract_utterances

\* Largest number of utterance rows of a CSV file.
MaxRawRows == 2

\* The strings of the time fields of the raw rows: "", "-5", "0", "5", "30".
RawTimes ==
    {Timecode("", <<>>, <<>>), Timecode("-", <<5>>, <<>>),
     Timecode("", <<0>>, <<>>), Timecode("", <<5>>, <<>>),
     Timecode("", <<30>>, <<>>)}

\* The raw speaker labels of the rows: one the mapping knows, one it does
\* not.
RawSpeakers == {"Agent", "Bot"}

\* self.speaker_mapping, as loaded from the configuration.
SpeakerMapping == [raw \in {"Agent", "Customer"} |->
                      IF raw = "Agent" THEN "AGENT" ELSE "CUSTOMER"]

\* self.speaker_mapping.get(raw_speaker, self.default_speaker)
NormalizeSpeaker(raw_speaker) ==
    IF raw_speaker \in DOMAIN SpeakerMapping THEN SpeakerMapping[raw_speaker]
    ELSE "UNKNOWN"

\* invalid_reason = None
NoReason == "None"

\* A variant of ValidateTimeRange that accepts an empty range.
ValidateTimeRangeAcceptsEmpty(start, end) ==
    IF start < 0 \/ end < 0 THEN [is_valid |-> FALSE, reason |-> "negative_time"]
    ELSE IF end < start
         THEN [is_valid |-> FALSE, reason |-> "nonpositive_duration"]
         ELSE [is_valid |-> TRUE, reason |-> ""]

\* validate_time_range(start, end)
ValidateTimeRange(start, end) ==
    IF start < 0 \/ end < 0 THEN [is_valid |-> FALSE, reason |-> "negative_time"]
    ELSE IF end <= start
         THEN [is_valid |-> FALSE, reason |-> "nonpositive_duration"]
         ELSE [is_valid |-> TRUE, reason |-> ""]

\* The time fields of the utterance made from the strings raw_start and
\* raw_end, in milliseconds.
ParseTimes(raw_start, raw_end) ==
    LET none == [start_sec |-> NaN, end_sec |-> NaN, duration_sec |-> NaN,
                 valid_time |-> FALSE, invalid_reason |-> NoReason]
    IN IF raw_start.parts = <<>> \/ raw_end.parts = <<>>
       THEN [none EXCEPT !.invalid_reason = "missing_time"]
       ELSE LET start == ParseTimecodeOf(raw_start)
                end == ParseTimecodeOf(raw_end)
            IN IF start.raised
               THEN [none EXCEPT !.invalid_reason = "parse_error"]
               ELSE IF end.raised
               THEN [none EXCEPT !.start_sec = start.value,
                                 !.invalid_reason = "parse_error"]
               ELSE LET range == ValidateTimeRange(start.value, end.value)
                    IN IF range.is_valid
                       THEN [start_sec |-> start.value,
                             end_sec |-> end.value,
                             duration_sec |-> end.value - start.value,
                             valid_time |-> TRUE,
                             invalid_reason |-> NoReason]
                       ELSE [none EXCEPT !.start_sec = start.value,
                                         !.end_sec = end.value,
                                         !.invalid_reason = range.reason]

\* f"{call_id}-{index:05d}": the call_id and the index, which the padding
\* to five digits (or more) keeps apart.
UttId(call_id, index) == <<call_id, index>>

\* The utterance dict made from one raw row.  The text and its counts are
\* not represented.
Utterance(raw, index, call_id) ==
    [call_id |-> call_id, utt_id |-> UttId(call_id, index),
     utterance_index |-> index, speaker |-> NormalizeSpeaker(raw.speaker)]
    @@ ParseTimes(raw.start_time, raw.end_time)

\* sort_values(by=['valid_time', 'start_sec'], ...) sorts stably on the
\* two keys: a row goes after every row that may stand before it.
RECURSIVE InsertUtterance(_, _)
InsertUtterance(u, sorted) ==
    IF sorted = <<>> THEN <<u>>
    ELSE IF ReaderOrderLeq(Head(sorted), u)
         THEN <<Head(sorted)>> \o InsertUtterance(u, Tail(sorted))
         ELSE <<u>> \o sorted

RECURSIVE SortUtterances(_)
SortUtterances(utterances) ==
    IF utterances = <<>> THEN <<>>
    ELSE InsertUtterance(utterances[Len(utterances)],
             SortUtterances(SubSeq(utterances, 1, Len(utterances) - 1)))

\* A variant of ExtractedFrame that keeps the utterance_index and utt_id
\* given before the sort.
ExtractedFrameKeepsIndex(utter_rows, call_id) ==
    SortUtterances([i \in 1..Len(utter_rows) |->
                       Utterance(utter_rows[i], i - 1, call_id)])

\* _extract_utterances(utter_rows, call_id, config): the frame, sorted and
\* with utterance_index and utt_id re-assigned.
ExtractedFrame(utter_rows, call_id) ==
    LET utterances == [i \in 1..Len(utter_rows) |->
                          Utterance(utter_rows[i], i - 1, call_id)]
        df == SortUtterances(utterances)
    IN [i \in 1..Len(df) |->
           [df[i] EXCEPT !.utterance_index = i - 1,
                         !.utt_id = UttId(df[i].call_id, i - 1)]]

\* The CSV file has one more utterance row.
ReadRawRow ==
    /\ op \in {"new", "read"}
    /\ Len(IF op = "new" THEN <<>> ELSE arg) < MaxRawRows
    /\ \E speaker \in RawSpeakers, start_time \in RawTimes,
          end_time \in RawTimes :
          arg' = Append(IF op = "new" THEN <<>> ELSE arg,
                        [speaker |-> speaker, start_time |-> start_time,
                         end_time |-> end_time])
    /\ op' = "read"
    /\ UNCHANGED <<calc, utterances_df, ret, first, batch, registry>>

\* self._extract_utterances(utter_rows, call_id, config)
ExtractUtterances ==
    /\ op \in {"new", "read"}
    /\ \E call_id \in {"call_a", "call_b"} :
          ret' = ExtractedFrame(IF op = "new" THEN <<>> ELSE arg, call_id)
    /\ arg' = IF op = "new" THEN <<>> ELSE arg
    /\ op' = "_extract_utterances"
    /\ UNCHANGED <<calc, utterances_df, first, batch, registry>>

NextReader == ReadRawRow \/ ExtractUtterances

SpecReader == Init /\ [][NextReader]_vars

AfterExtract == op = "_extract_utterances"

\* C17: every utterance _extract_utterances produces has, when valid_time
\* is true, start_sec >= 0, end_sec > start_sec,
\* duration_sec = end_sec - start_sec and no invalid_reason, and, when
\* valid_time is false, no duration_sec and an invalid_reason among
\* missing_time, nonpositive_duration, negative_time and parse_error.
C17_ValidityOfUtterances ==
    AfterExtract =>
        /\ Len(ret) = Len(arg)
        /\ \A i \in 1..Len(ret) :
              IF ret[i].valid_time
              THEN /\ ret[i].start_sec # NaN /\ ret[i].end_sec # NaN
                   /\ ret[i].start_sec >= 0
                   /\ ret[i].end_sec > ret[i].start_sec
                   /\ ret[i].duration_sec = ret[i].end_sec - ret[i].start_sec
                   /\ ret[i].invalid_reason = NoReason
              ELSE /\ ret[i].duration_sec = NaN
                   /\ ret[i].invalid_reason \in
                         {"missing_time", "nonpositive_duration",
                          "negative_time", "parse_error"}

\* A valid utterance and one whose end does not lie after its start.
C17_Witness ==
    /\ AfterExtract
    /\ Len(ret) = 2
    /\ ret[1].valid_time /\ ret[1].duration_sec = 25000
    /\ ~ret[2].valid_time
    /\ ret[2].invalid_reason = "nonpositive_duration"
    /\ ret[2].start_sec = ret[2].end_sec

\* ------------------------------------------------- compute_quality_metrics

\* An Optional[float]: None is the empty tuple, a value v is <<v>>.
Some(v) == <<v>>

\* The call_duration_meta a call row can carry: None, the NaN a missing
\* value becomes in the calls frame, zero, and a positive duration.
MetaDurations == {None, Some(NaN), Some(0), Some(5)}

\* A variant of the delta that keeps the sign of the difference.
MetadataTimelineDeltaSigned(call_duration_meta, T) ==
    IF call_duration_meta # None /\ call_duration_meta[1] > 0
    THEN Some(call_duration_meta[1] - T)
    ELSE None

\* metadata_timeline_delta
MetadataTimelineDelta(call_duration_meta, T) ==
    IF call_duration_meta # None /\ call_duration_meta[1] > 0
    THEN Some(Abs(call_duration_meta[1] - T))
    ELSE None

\* metadata_timeline_delta_ratio
MetadataTimelineDeltaRatio(call_duration_meta, T) ==
    IF call_duration_meta # None /\ call_duration_meta[1] > 0
    THEN Some(Ratio(Abs(call_duration_meta[1] - T), call_duration_meta[1]))
    ELSE None

\* _empty_quality_metrics(call_id)
EmptyQualityMetrics ==
    [total_utterances |-> 0,
     invalid_time_count |-> 0,
     unknown_speaker_count |-> 0,
     zero_duration_count |-> 0,
     invalid_time_ratio |-> Zero,
     unknown_speaker_ratio |-> Zero,
     zero_duration_ratio |-> Zero,
     call_duration_meta |-> None,
     call_duration_computed |-> 0,
     metadata_timeline_delta |-> None,
     metadata_timeline_delta_ratio |-> None]

\* compute_quality_metrics(call_id, utterances_df, call_duration_meta,
\* timeline_stats).  The text of the utterances, the invalid_reason column
\* and the score made from them are not represented.
QualityMetrics(df, call_duration_meta, timeline_stats) ==
    LET total_utts == Len(df)
        invalid_time_count == Len(SelectSeq(df, LAMBDA r : ~r.valid_time))
        unknown_speaker_count ==
            Len(SelectSeq(df, LAMBDA r : r.speaker = "UNKNOWN"))
        valid_df == SelectSeq(df, LAMBDA r : r.valid_time)
        zero_duration_count ==
            Len(SelectSeq(valid_df, LAMBDA r : r.duration_sec = 0))
        T == timeline_stats.T
    IN IF total_utts = 0 THEN EmptyQualityMetrics
       ELSE [total_utterances |-> total_utts,
             invalid_time_count |-> invalid_time_count,
             unknown_speaker_count |-> unknown_speaker_count,
             zero_duration_count |-> zero_duration_count,
             invalid_time_ratio |-> Ratio(invalid_time_count, total_utts),
             unknown_speaker_ratio |->
                 Ratio(unknown_speaker_count, total_utts),
             zero_duration_ratio |->
                 IF Len(valid_df) > 0
                 THEN Ratio(zero_duration_count, Len(valid_df))
                 ELSE Zero,
             call_duration_meta |-> call_duration_meta,
             call_duration_computed |-> T,
             metadata_timeline_delta |->
                 MetadataTimelineDelta(call_duration_meta, T),
             metadata_timeline_delta_ratio |->
                 MetadataTimelineDeltaRatio(call_duration_meta, T)]

\* registry.compute('quality_metrics', ...) with the call row's
\* call_duration_meta and the timeline_stats of the call's rows.
ComputeQualityMetrics ==
    /\ op \in {"new", "load"}
    /\ \E call_duration_meta \in MetaDurations :
          /\ arg' = call_duration_meta
          /\ ret' = QualityMetrics(utterances_df, call_duration_meta,
                                   TimelineStats(utterances_df))
    /\ op' = "compute_quality_metrics"
    /\ UNCHANGED <<calc, utterances_df, first, batch, registry>>

\* compute_quality_metrics on frames of every speaker label.
NextQuality == AppendInterruptionRow \/ ComputeQualityMetrics

SpecQuality == Init /\ [][NextQuality]_vars

AfterQuality == op = "compute_quality_metrics"

\* The metadata duration is absent: None, or NaN in the calls frame.
NoMetadataDuration(call_duration_meta) ==
    call_duration_meta = None \/ call_duration_meta = Some(NaN)

\* T as the extent of the rows whose valid_time is true.
ExtentOfValid(df) ==
    LET valid == {i \in 1..Len(df) : df[i].valid_time}
    IN IF valid = {} THEN 0
       ELSE (CHOOSE e \in {df[i].end_sec : i \in valid} :
                \A i \in valid : df[i].end_sec <= e)
            - (CHOOSE s \in {df[i].start_sec : i \in valid} :
                  \A i \in valid : s <= df[i].start_sec)

\* C20 as stated: metadata_timeline_delta is null exactly when no metadata
\* duration is supplied, and is |call_duration_meta - T| whenever one is
\* supplied.
C20_DeltaIsNullIffNoMetadata ==
    AfterQuality =>
        IF NoMetadataDuration(arg)
        THEN ret.metadata_timeline_delta = None
        ELSE ret.metadata_timeline_delta =
                 Some(Abs(arg[1] - ExtentOfValid(utterances_df)))

\* C20: compute_quality_metrics returns a record whatever the metadata
\* duration is; metadata_timeline_delta is null when no metadata duration
\* is supplied, and also when the supplied duration is not positive or the
\* call has no utterances, and is |call_duration_meta - T| when a positive
\* duration is supplied for a call that has utterances.
C20_DeltaNeedsPositiveDurationAndRows ==
    AfterQuality =>
        /\ NoMetadataDuration(arg) => ret.metadata_timeline_delta = None
        /\ ret.metadata_timeline_delta =
              IF /\ ~NoMetadataDuration(arg)
                 /\ arg[1] > 0
                 /\ utterances_df # <<>>
              THEN Some(Abs(arg[1] - ExtentOfValid(utterances_df)))
              ELSE None

\* A call that lasts longer than its metadata says.
C20_Witness ==
    /\ AfterQuality
    /\ arg = Some(5)
    /\ ret.call_duration_computed = 7
    /\ ret.metadata_timeline_delta = Some(2)
    /\ ret.unknown_speaker_count = 1

\* The same call without a metadata duration.
C20_WitnessAbsent ==
    /\ AfterQuality
    /\ arg = None
    /\ ret.call_duration_computed = 7
    /\ ret.metadata_timeline_delta = None

\* ------------------------------------------------------ cli.compute (loop)

\* Largest number of calls in calls.parquet.
MaxCalls == 2

\* The call_id values of the calls (unique in calls.parquet, CallsSchema).
CallIds == {"call_a", "call_b", "call_c"}

\* The call_duration_meta of the call rows.
BatchMetaDurations == {None, Some(5)}

\* The names register_core_metrics() puts in the registry.
CoreMetrics ==
    {"call_metrics", "speaker_metrics", "quality_metrics",
     "text_statistics", "filler_words", "interaction_metrics"}

\* The state of compute() before any data is read: the registry filled,
\* the six lists empty.  files[k] is the transcript calls[k] was read from.
EmptyBatch ==
    [registry |-> CoreMetrics,
     calls |-> <<>>,
     files |-> <<>>,
     utterances |-> <<>>,
     i |-> 0,
     pc |-> "loop",
     call_metrics_list |-> <<>>,
     speaker_metrics_list |-> <<>>,
     quality_metrics_list |-> <<>>,
     interaction_metrics_list |-> <<>>]

\* A row, or a record, with the call_id of its call.
WithCallId(r, call_id) == [call_id |-> call_id] @@ r

\* The transcript of a call as the reader wrote it: every row has call_id.
Transcript(df, call_id) ==
    [k \in 1..Len(df) |-> WithCallId(df[k], call_id)]

\* A variant of CallUtts that does not filter by call_id.
CallUttsOfAllCalls(all_utterances, call_id) == all_utterances

\* utterances_df[utterances_df['call_id'] == call_id]
CallUtts(all_utterances, call_id) ==
    SelectSeq(all_utterances, LAMBDA r : r.call_id = call_id)

\* The records registry.compute('call_metrics', ...) may return.
CallRecords(call_id, df, timeline_stats) ==
    {WithCallId(CallMetrics(df, timeline_stats, sorted), call_id) :
        sorted \in SortedByStart(ValidRows(df))}

\* The list registry.compute('speaker_metrics', ...) returns.
SpeakerRecords(call_id, df, timeline_stats) ==
    LET metrics == SpeakerMetrics(df, timeline_stats)
    IN [k \in 1..Len(metrics) |-> WithCallId(metrics[k], call_id)]

\* The record registry.compute('quality_metrics', ...) returns.
QualityRecord(call_id, df, call_duration_meta, timeline_stats) ==
    WithCallId(QualityMetrics(df, call_duration_meta, timeline_stats),
               call_id)

\* The records registry.compute('interaction_metrics', ...) may return.
InteractionRecords(call_id, df) ==
    LET valid_utts == ValidRows(df)
    IN IF Len(valid_utts) < 2
       THEN {WithCallId(EmptyInteractionMetrics, call_id)}
       ELSE {WithCallId(InteractionMetrics(sorted), call_id) :
                sorted \in StartOrders(valid_utts)}

\* calls.parquet and utterances.parquet hold one more call: a call_id not
\* yet used, a transcript and a metadata duration.
ReadCall ==
    /\ op \in {"new", "read_parquet"}
    /\ LET b == IF op = "new" THEN EmptyBatch ELSE batch
       IN /\ Len(b.calls) < MaxCalls
          /\ \E call_id \in CallIds \ {b.calls[k].call_id :
                                          k \in 1..Len(b.calls)},
                df \in PureFrames,
                call_duration_meta \in BatchMetaDurations :
                batch' =
                    [b EXCEPT
                       !.calls = Append(@, [call_id |-> call_id,
                                            call_duration_meta |->
                                                call_duration_meta]),
                       !.files = Append(@, Transcript(df, call_id)),
                       !.utterances = @ \o Transcript(df, call_id)]
    /\ op' = "read_parquet"
    /\ UNCHANGED <<calc, utterances_df, ret, first, arg, registry>>

\* The loop takes the next call row: call_utts is filtered out of the
\* utterances and calc.compute_timeline_stats(call_utts) is called.
TimelineStatsOfNextCall ==
    /\ op \in {"read_parquet", "compute"}
    /\ batch.pc = "loop"
    /\ batch.i < Len(batch.calls)
    /\ LET call_row == batch.calls[batch.i + 1]
           call_utts == CallUtts(batch.utterances, call_row.call_id)
       IN /\ utterances_df' = call_utts
          /\ arg' = call_row
          /\ ret' = TimelineStatsFrom(SweepInit, call_utts)
    /\ batch' = [batch EXCEPT !.pc = "stats"]
    /\ op' = "compute"
    /\ UNCHANGED <<calc, first, registry>>

\* The rest of the loop body: the registry computes the metrics of the
\* call from call_utts and timeline_stats, and the records are appended to
\* their lists.
MetricsOfCall ==
    /\ op = "compute"
    /\ batch.pc = "stats"
    /\ {"call_metrics", "speaker_metrics", "quality_metrics",
        "interaction_metrics"} \subseteq batch.registry
    /\ LET call_id == arg.call_id
           call_utts == utterances_df
           timeline_stats == ret
       IN \E call_metrics \in CallRecords(call_id, call_utts, timeline_stats),
             interaction_metrics \in InteractionRecords(call_id, call_utts) :
             batch' =
                 [batch EXCEPT
                    !.call_metrics_list = Append(@, call_metrics),
                    !.speaker_metrics_list =
                        @ \o SpeakerRecords(call_id, call_utts,
                                            timeline_stats),
                    !.quality_metrics_list =
                        Append(@, QualityRecord(call_id, call_utts,
                                                arg.call_duration_meta,
                                                timeline_stats)),
                    !.interaction_metrics_list =
                        Append(@, interaction_metrics),
                    !.i = @ + 1,
                    !.pc = "loop"]
    /\ UNCHANGED <<calc, utterances_df, op, ret, first, arg, registry>>

NextBatch == ReadCall \/ TimelineStatsOfNextCall \/ MetricsOfCall

SpecBatch == Init /\ [][NextBatch]_vars

InCompute == op = "compute"

\* The records of list whose call_id is call_id.
RecordsOf(list, call_id) == SelectSeq(list, LAMBDA r : r.call_id = call_id)

MetricNames == {"call_metrics", "text_statistics"}

\* Input names a metric can declare and a caller can pass.
InputNames == {"call_id", "utterances_df"}

\* Categories of the metrics.
Categories == {"call", "text"}

\* The compute functions: one returns a result, one raises.
ComputeFuncs == {"returns", "raises"}

\* MetricDefinition(name, ..., category, compute_func, ..., inputs, ...)
MetricDefinition(name, category, compute_func, inputs) ==
    [name |-> name, category |-> category, compute_func |-> compute_func,
     inputs |-> inputs]

\* name in self._metrics
Registered(metrics, name) == \E k \in 1..Len(metrics) : metrics[k].name = name

\* self._metrics[name]
Definition(metrics, name) ==
    metrics[CHOOSE k \in 1..Len(metrics) : metrics[k].name = name]

\* self._metrics[name] = metric_def: a known name keeps its place.
SetMetric(metrics, metric_def) ==
    IF Registered(metrics, metric_def.name)
    THEN [k \in 1..Len(metrics) |->
             IF metrics[k].name = metric_def.name THEN metric_def
             ELSE metrics[k]]
    ELSE Append(metrics, metric_def)

\* What a call comes to: the exception raised ("" for none), the value
\* returned, and whether the metric's compute function was called.
Outcome(raised, value, invoked) ==
    [raised |-> raised, value |-> value, invoked |-> invoked]

\* compute_func(**kwargs)
CallComputeFunc(metric_def, kwargs) ==
    IF metric_def.compute_func = "raises"
    THEN Outcome("RuntimeError", None, TRUE)
    ELSE Outcome("", <<[metric |-> metric_def.name, kwargs |-> kwargs]>>,
                 TRUE)

\* get(name)
RegistryGet(metrics, name) ==
    IF ~Registered(metrics, name) THEN Outcome("KeyError", None, FALSE)
    ELSE Outcome("", <<Definition(metrics, name)>>, FALSE)

\* list_metrics(category); category "" is the default None.
RegistryListMetrics(metrics, category) ==
    Outcome("",
            IF category # ""
            THEN SelectSeq(metrics, LAMBDA m : m.category = category)
            ELSE metrics,
            FALSE)

\* A variant of RegistryCompute that calls the function before it looks at
\* the inputs.
RegistryComputeUnchecked(metrics, name, kwargs) ==
    LET got == RegistryGet(metrics, name)
    IN IF got.raised # "" THEN got
       ELSE CallComputeFunc(got.value[1], kwargs)

\* compute(name, **kwargs)
RegistryCompute(metrics, name, kwargs) ==
    LET got == RegistryGet(metrics, name)
    IN IF got.raised # "" THEN got
       ELSE LET metric_def == got.value[1]
                missing == metric_def.inputs \ kwargs
            IN IF missing # {} THEN Outcome("ValueError", None, FALSE)
               ELSE CallComputeFunc(metric_def, kwargs)

\* registry.register(name, version, category, compute_func, description,
\* inputs, outputs, units)
Register ==
    /\ \E name \in MetricNames, category \in Categories,
          compute_func \in ComputeFuncs, inputs \in SUBSET InputNames :
          LET metric_def ==
                  MetricDefinition(name, category, compute_func, inputs)
          IN /\ registry' = SetMetric(registry, metric_def)
             /\ arg' = metric_def
    /\ ret' = Outcome("", None, FALSE)
    /\ op' = "register"
    /\ UNCHANGED <<calc, utterances_df, first, batch>>

\* registry.get(name)
GetMetric ==
    /\ \E name \in MetricNames :
          /\ arg' = [name |-> name]
          /\ ret' = RegistryGet(registry, name)
    /\ op' = "get"
    /\ UNCHANGED <<calc, utterances_df, first, batch, registry>>

\* registry.list_metrics(category)
ListMetrics ==
    /\ \E category \in Categories \cup {""} :
          /\ arg' = [category |-> category]
          /\ ret' = RegistryListMetrics(registry, category)
    /\ op' = "list_metrics"
    /\ UNCHANGED <<calc, utterances_df, first, batch, registry>>

\* registry.compute(name, **kwargs)
ComputeMetric ==
    /\ \E name \in MetricNames, kwargs \in SUBSET InputNames :
          /\ arg' = [name |-> name, kwargs |-> kwargs]
          /\ ret' = RegistryCompute(registry, name, kwargs)
    /\ op' = "compute"
    /\ UNCHANGED <<calc, utterances_df, first, batch, registry>>

NextRegistry == Register \/ GetMetric \/ ListMetrics \/ ComputeMetric

SpecRegistry == Init /\ [][NextRegistry]_vars

\* The declared inputs of the metric a compute call names.
DeclaredInputs(metrics, name) ==
    UNION {metrics[k].inputs : k \in {j \in 1..Len(metrics) :
                                         metrics[j].name = name}}

\* C21: compute raises KeyError for a name that is not registered and
\* ValueError when a declared input is missing, both without calling the
\* compute function; otherwise the function is called and its result is
\* returned or its exception reaches the caller; and get, list_metrics and
\* compute leave the name-to-definition mapping as it was.
C21_ComputeChecksBeforeCalling ==
    [][/\ op' \in {"get", "list_metrics", "compute"} => registry' = registry
       /\ op' = "compute" =>
             LET name == arg'.name
                 known == {registry[k].name : k \in 1..Len(registry)}
             IN IF name \notin known
                THEN ret'.raised = "KeyError" /\ ~ret'.invoked
                ELSE IF ~(DeclaredInputs(registry, name) \subseteq arg'.kwargs)
                THEN ret'.raised = "ValueError" /\ ~ret'.invoked
                ELSE /\ ret'.invoked
                     /\ ret'.raised \in {"", "RuntimeError"}
                     /\ ret'.raised = "" =>
                           ret'.value = <<[metric |-> name,
                                           kwargs |-> arg'.kwargs]>>
                     /\ ret'.raised = "RuntimeError" <=>
                           \E k \in 1..Len(registry) :
                              /\ registry[k].name = name
                              /\ registry[k].compute_func = "raises"]_vars

\* A compute call that lacks a declared input of a registered metric.
C21_Witness ==
    /\ op = "compute"
    /\ Len(registry) = 2
    /\ arg = [name |-> "call_metrics", kwargs |-> {"call_id"}]
    /\ Definition(registry, "call_metrics").inputs =
          {"call_id", "utterances_df"}
    /\ ret = Outcome("ValueError", None, FALSE)

\* ------------------------------------------------- compute_turns (extent)

\* The valid rows of turn k, in utterance_index order.
RunOf(df, turns, k) ==
    SubSeq(OnlyValid(df), RowsBefore(turns, k) + 1, RowsBefore(turns, k + 1))

\* C22: every turn of compute_turns starts at the start_sec of the first
\* utterance of its run, ends at the largest end_sec of the run, and has
\* duration_sec = end_sec - start_sec > 0.
C22_TurnExtent ==
    AfterTurns =>
        \A k \in 1..Len(ret) :
           LET run == RunOf(utterances_df, ret, k)
           IN /\ run # <<>>
              /\ ret[k].start_sec = run[1].start_sec
              /\ \A i \in 1..Len(run) : run[i].end_sec <= ret[k].end_sec
              /\ \E i \in 1..Len(run) : run[i].end_sec = ret[k].end_sec
              /\ ret[k].duration_sec = ret[k].end_sec - ret[k].start_sec
              /\ ret[k].duration_sec > 0

\* A run whose last utterance ends before an earlier one: [3,5) then [0,3)
\* of one speaker is the turn from 3 to 5.
C22_Witness ==
    /\ AfterTurns
    /\ Len(utterances_df) = 2
    /\ utterances_df[1].speaker = "AGENT" /\ utterances_df[2].speaker = "AGENT"
    /\ utterances_df[1].start_sec = 3 /\ utterances_df[1].end_sec = 5
    /\ utterances_df[2].start_sec = 0 /\ utterances_df[2].end_sec = 3
    /\ Len(ret) = 1
    /\ ret[1].start_sec = 3 /\ ret[1].end_sec = 5 /\ ret[1].duration_sec = 2

\* --------------------------------------------------- _compute_gini (range)

\* q lies in the half-open range [0, 1).
InUnitRange(q) == q.num >= 0 /\ q.den > 0 /\ q.num < q.den

DeadAirTimes == {0, 1, 2, 8, 9}

\* Valid rows over those time points, and a row with missing times.
DeadAirRowData ==
    {[speaker |-> s, start_sec |-> iv[1], end_sec |-> iv[2],
      duration_sec |-> iv[2] - iv[1], valid_time |-> TRUE] :
        s \in {"AGENT", "CUSTOMER"},
        iv \in {p \in DeadAirTimes \X DeadAirTimes : p[1] < p[2]}}
    \cup
    {[speaker |-> "AGENT", start_sec |-> NaN, end_sec |-> NaN,
      duration_sec |-> NaN, valid_time |-> FALSE]}

\* dead_air after the loop over the first i adjacent pairs of the sorted
\* rows: the gaps longer than 5 seconds, added up.
RECURSIVE DeadAirUpTo(_, _)
DeadAirUpTo(sorted, i) ==
    IF i <= 0 THEN 0
    ELSE LET gap == sorted[i + 1].start_sec - sorted[i].end_sec
         IN DeadAirUpTo(sorted, i - 1) + (IF gap > 5 THEN gap ELSE 0)

\* compute_dead_air_time(utterances_df, call_metrics)
ComputeDeadAirTime ==
    /\ op' = "compute_dead_air_time"
    /\ LET valid_utts == ValidRows(utterances_df)
       IN IF Len(valid_utts) < 2
          THEN ret' = 0
          ELSE \E sorted \in SortedByStart(valid_utts) :
                  ret' = DeadAirUpTo(sorted, Len(sorted) - 1)
    /\ UNCHANGED <<calc, utterances_df, first, arg, batch, registry>>

AppendDeadAirRow == AppendFrom(DeadAirRowData)

NextDeadAir == AppendDeadAirRow \/ ComputeDeadAirTime

SpecDeadAir == Init /\ [][NextDeadAir]_vars

AfterDeadAir == op = "compute_dead_air_time"

\* No valid row of df covers the unit of time [u, u + 1).
SilentAt(df, u) ==
    \A i \in 1..Len(df) :
       df[i].valid_time => ~(df[i].start_sec <= u /\ u < df[i].end_sec)

\* The silent periods of df: the maximal intervals [a, b) between two
\* utterances in which no valid row speaks.
SilentPeriods(df) ==
    LET T == 0..(CHOOSE m \in DeadAirTimes : \A t \in DeadAirTimes : t <= m)
    IN {p \in T \X T :
          /\ p[1] < p[2]
          /\ \A u \in p[1]..(p[2] - 1) : SilentAt(df, u)
          /\ p[1] - 1 \in T /\ ~SilentAt(df, p[1] - 1)
          /\ p[2] \in T /\ ~SilentAt(df, p[2])}

\* The total length of the silent periods longer than 5 seconds.
LongSilence(df) ==
    SumOver([p \in SilentPeriods(df) |->
                IF p[2] - p[1] > 5 THEN p[2] - p[1] ELSE 0],
            SilentPeriods(df))

\* C24 as stated: compute_dead_air_time returns the total length of the
\* silent periods longer than 5 seconds, so it never exceeds the S of
\* compute_timeline_stats on the same rows, and it is 0 with fewer than two
\* valid rows.
C24_DeadAirIsLongSilence ==
    AfterDeadAir =>
        /\ ret = LongSilence(utterances_df)
        /\ ret <= TimelineStats(utterances_df).S
        /\ Len(OnlyValid(utterances_df)) < 2 => ret = 0

\* ------------------------------------- _extract_utterances (index order)

\* C25: in the frame _extract_utterances returns, utterance_index runs
\* 0..n-1 in row order, every row with valid_time = true stands before
\* every row with valid_time = false, start_sec is non-decreasing among the
\* valid rows, and the utt_id values, made of call_id and index, differ.
C25_IndexFollowsTimeOrder ==
    AfterExtract =>
        /\ \A i \in 1..Len(ret) :
              /\ ret[i].utterance_index = i - 1
              /\ ret[i].utt_id = UttId(ret[i].call_id, ret[i].utterance_index)
        /\ \A i, j \in 1..Len(ret) :
              /\ i # j => ret[i].utt_id # ret[j].utt_id
              /\ (ret[i].valid_time /\ ~ret[j].valid_time) => i < j
              /\ (ret[i].valid_time /\ ret[j].valid_time /\ i < j) =>
                    ret[i].start_sec <= ret[j].start_sec

\* A row without times read before a valid row: the valid row gets index
\* 0.
C25_Witness ==
    /\ AfterExtract
    /\ Len(arg) = 2
    /\ arg[1].start_time.parts = <<>>
    /\ Len(ret) = 2
    /\ ret[1].valid_time /\ ret[1].utterance_index = 0
    /\ ret[1].start_sec = 5000
    /\ ~ret[2].valid_time /\ ret[2].utterance_index = 1
    /\ ret[2].invalid_reason = "missing_time"

\* ------------------------------------- compute_timeline_stats, step by step

\* Rows of the two parties over the short time points, and a row with
\* missing times.
SweepRowData ==
    {r \in InterruptionRowData : r.speaker \in {"AGENT", "UNKNOWN"}}
    \cup {[r EXCEPT !.speaker = "CUSTOMER"] :
             r \in {q \in InterruptionRowData :
                       q.speaker = "AGENT" /\ q.valid_time}}

AppendSweepRow == AppendFrom(SweepRowData)

\* compute_timeline_stats up to the loop: the events of the valid rows are
\* built and sorted, and the sweep's variables are set.
StartSweep ==
    /\ op \in {"new", "load"}
    /\ ValidRows(utterances_df) # <<>>
    /\ arg' = SortEvents(BuildEvents(ValidRows(utterances_df)))
    /\ ret' = SweepInit
    /\ op' = "sweep"
    /\ UNCHANGED <<calc, utterances_df, first, batch, registry>>

\* One iteration of the loop over the events.
SweepEvent ==
    /\ op = "sweep"
    /\ arg # <<>>
    /\ ret' = SweepStep(ret, Head(arg))
    /\ arg' = Tail(arg)
    /\ UNCHANGED <<calc, utterances_df, op, first, batch, registry>>

NextSweep == AppendSweepRow \/ StartSweep \/ SweepEvent

SpecSweep == Init /\ [][NextSweep]_vars

InSweep == op = "sweep"

\* The speakers with a valid row that spans the segment [a, b).
SpeakingThrough(df, a, b) ==
    {df[i].speaker : i \in {j \in 1..Len(df) :
        df[j].valid_time /\ df[j].start_sec <= a /\ b <= df[j].end_sec}}

\* C26: during the sweep the active count of every speaker is >= 0 after
\* every event; when a segment of positive length is about to be
\* processed, every speaker with an utterance spanning it has a count > 0;
\* and after the last event every count is 0.
C26_ActiveCounts ==
    InSweep =>
        /\ \A spk \in DOMAIN ret.active_speakers :
              ret.active_speakers[spk] >= 0
        /\ (arg # <<>> /\ ret.last_t # NaN /\ Head(arg).t > ret.last_t) =>
              \A spk \in SpeakingThrough(utterances_df, ret.last_t,
                                         Head(arg).t) :
                 Get(ret.active_speakers, spk) > 0
        /\ arg = <<>> =>
              \A spk \in DOMAIN ret.active_speakers :
                 ret.active_speakers[spk] = 0

\* Two utterances of one speaker and one of the other are all active at
\* once.
C26_Witness ==
    /\ InSweep
    /\ Len(arg) = 3
    /\ Get(ret.active_speakers, "AGENT") = 2
    /\ Get(ret.active_speakers, "CUSTOMER") = 1
    /\ ret.last_t = 3
    /\ Head(arg).t = 5

\* --------------------------------------- the sweep and the order of ties

\* The event lists that hold the given events in non-decreasing time, the
\* events of one timestamp in any order (any event of least time may come
\* first).
RECURSIVE TimeOrders(_)
TimeOrders(events) ==
    IF events = <<>> THEN {<<>>}
    ELSE LET least == CHOOSE t \in {events[i].t : i \in 1..Len(events)} :
                         \A i \in 1..Len(events) : t <= events[i].t
         IN UNION {{<<events[i]>> \o rest :
                        rest \in TimeOrders(RemoveAt(events, i))} :
                   i \in {j \in 1..Len(events) : events[j].t = least}}

\* The loop of compute_timeline_stats run on the events of the valid rows
\* in a given order, and the dict made of its results.
SweepInOrder ==
    /\ op \in {"new", "load"}
    /\ LET valid_df == ValidRows(utterances_df)
       IN /\ valid_df # <<>>
          /\ \E events \in TimeOrders(BuildEvents(valid_df)) :
                LET T == TimelineBounds(valid_df)
                    end == Sweep(SweepInit, events)
                IN /\ arg' = events
                   /\ ret' = [T |-> T, L |-> end.L, O |-> end.O,
                              S |-> Silence(T, end.L),
                              apportioned |-> end.apportioned,
                              raw_speaking |-> RawSpeaking(valid_df)]
    /\ op' = "sweep_in_order"
    /\ UNCHANGED <<calc, utterances_df, first, batch, registry>>

NextEventOrder == AppendSweepRow \/ SweepInOrder

SpecEventOrder == Init /\ [][NextEventOrder]_vars

AfterSweepInOrder == op = "sweep_in_order"

\* C27: whatever order the events of one timestamp are processed in, the
\* sweep gives the T, L, O, S and apportioned that compute_timeline_stats
\* gives with its own order (starts before ends).
C27_TieOrderIsImmaterial ==
    AfterSweepInOrder => ret = TimelineStats(utterances_df)

\* Touching utterances of two speakers and a third that starts with the
\* first: the end at 3 is processed before the start at 3, and the starts
\* at 0 in the order opposite to the rows.
C27_Witness ==
    /\ AfterSweepInOrder
    /\ Len(arg) = 6
    /\ arg[1] = Event(0, 1, "CUSTOMER") /\ arg[2] = Event(0, 1, "AGENT")
    /\ arg[3] = Event(3, 0 - 1, "AGENT") /\ arg[4] = Event(3, 1, "CUSTOMER")
    /\ ret.O = 3
    /\ ret.L = 7

\* ------------------------------------ compute_timeline_stats, any row order

\* The rows of df in the order p gives them.
Reordered(df, p) == [i \in 1..Len(df) |-> df[p[i]]]

\* compute_timeline_stats on a frame that holds the rows of utterances_df in
\* some other order, the invalid rows anywhere among them.
ComputeTimelineStatsReordered ==
    /\ op = "load"
    /\ \E p \in Perms(Len(utterances_df)) :
          /\ arg' = Reordered(utterances_df, p)
          /\ ret' = TimelineStats(arg')
    /\ op' = "compute_timeline_stats_reordered"
    /\ UNCHANGED <<calc, utterances_df, first, batch, registry>>

NextReordered == AppendSweepRow \/ ComputeTimelineStatsReordered

SpecReordered == Init /\ [][NextReordered]_vars

AfterReordered == op = "compute_timeline_stats_reordered"

\* C28: compute_timeline_stats returns the same T, L, O, S, apportioned and
\* raw_speaking for every order of the same rows, wherever the invalid rows
\* stand among them.
C28_RowOrderIsImmaterial ==
    AfterReordered => ret = TimelineStats(utterances_df)

\* Three rows, two overlapping valid ones with the invalid one moved between
\* them and the later valid row first.
C28_Witness ==
    /\ AfterReordered
    /\ Len(arg) = 3
    /\ arg # utterances_df
    /\ arg[1].valid_time /\ ~arg[2].valid_time /\ arg[3].valid_time
    /\ arg[1].start_sec > arg[3].start_sec
    /\ arg[1].end_sec < arg[3].end_sec
    /\ ret.O > 0

\* --------------------------------------------- apportioned and raw_speaking

\* The speakers that have a valid row in df.
ValidSpeakers(df) ==
    {OnlyValid(df)[i].speaker : i \in 1..Len(OnlyValid(df))}

\* The sum of the apportioned_proportion values of the records, as a number
\* of 1/(L * ShareUnits) parts: each value is a fraction in lowest terms of
\* a denominator that divides L * ShareUnits.
RECURSIVE ProportionParts(_, _)
ProportionParts(records, parts) ==
    IF records = <<>> THEN 0
    ELSE Head(records).apportioned_proportion.num
            * (parts \div Head(records).apportioned_proportion.den)
         + ProportionParts(Tail(records), parts)

\* Valid rows of the three speakers over the short time points, and a row
\* of an unknown speaker with missing times.
ShareRowData ==
    {r \in InterruptionRowData : r.valid_time => r.speaker \in Speakers}

AppendShareRow == AppendFrom(ShareRowData)

\* compute_speaker_metrics on those frames.
NextShares == AppendShareRow \/ ComputeSpeakerMetrics

SpecShares == Init /\ [][NextShares]_vars

\* C29: apportioned and raw_speaking of compute_timeline_stats have the
\* speakers with a valid utterance as their keys, each speaker's apportioned
\* time is positive and at most the raw speaking time, and
\* compute_speaker_metrics gives one record per such speaker whose
\* apportioned_proportion values add up to 1 when L > 0.
C29_SharesOfValidSpeakers ==
    AfterSpeakerMetrics =>
        LET stats == TimelineStats(utterances_df)
            speakers == ValidSpeakers(utterances_df)
            parts == stats.L * ShareUnits
        IN /\ DOMAIN stats.apportioned = speakers
           /\ DOMAIN stats.raw_speaking = speakers
           /\ \A s \in speakers :
                 /\ 0 < stats.apportioned[s]
                 /\ stats.apportioned[s] <= stats.raw_speaking[s] * ShareUnits
           /\ Len(ret) = Cardinality(speakers)
           /\ {ret[i].speaker : i \in 1..Len(ret)} = speakers
           /\ \A i \in 1..Len(ret) :
                 /\ ret[i].apportioned_speaking_time
                       = stats.apportioned[ret[i].speaker]
                 /\ ret[i].raw_speaking_time
                       = stats.raw_speaking[ret[i].speaker]
           /\ stats.L > 0 =>
                 /\ \A i \in 1..Len(ret) :
                       parts % ret[i].apportioned_proportion.den = 0
                 /\ ProportionParts(ret, parts) = parts

\* Two speakers and an invalid row of a third: one speaker has two
\* utterances, the other overlaps one of them and gets less than its raw
\* time.
C29_Witness ==
    /\ AfterSpeakerMetrics
    /\ Len(utterances_df) = 3
    /\ Len(ret) = 2
    /\ \E i \in 1..Len(utterances_df) :
          /\ ~utterances_df[i].valid_time
          /\ utterances_df[i].speaker \notin ValidSpeakers(utterances_df)
    /\ \E i \in 1..2 :
          /\ ret[i].apportioned_speaking_time
                < ret[i].raw_speaking_time * ShareUnits
          /\ ret[i].apportioned_proportion.den > 2

\* ------------------------------------------ the two interruption counters

\* The compute loop's call_metrics and interaction_metrics of one call.
\* Both functions filter the valid rows of the same call_utts and sort them
\* by start_sec with the same sort, so the rows are in one order for both;
\* arg keeps that order.
InterruptionMetricsOfCall ==
    /\ op \in {"new", "load"}
    /\ \E sorted \in SortedByStart(ValidRows(utterances_df)) :
          /\ arg' = sorted
          /\ ret' =
                [call_metrics |->
                    CallMetrics(utterances_df, TimelineStats(utterances_df),
                                sorted),
                 interaction_metrics |->
                    IF Len(ValidRows(utterances_df)) < 2
                    THEN EmptyInteractionMetrics
                    ELSE InteractionMetrics(sorted)]
    /\ op' = "call_and_interaction_metrics"
    /\ UNCHANGED <<calc, utterances_df, first, batch, registry>>

NextCounters == AppendInterruptionRow \/ InterruptionMetricsOfCall

SpecCounters == Init /\ [][NextCounters]_vars

AfterCounters == op = "call_and_interaction_metrics"

\* The adjacent pairs of the sorted rows where the later row starts before
\* the earlier one ends and has another speaker.
InterruptingPairs(sorted) ==
    {i \in 1..(Len(sorted) - 1) :
        /\ sorted[i + 1].start_sec < sorted[i].end_sec
        /\ sorted[i + 1].speaker # sorted[i].speaker}

\* C30: on every call interruptions_count of compute_interaction_metrics is
\* at least negative_gaps_count of compute_call_metrics, which is at least
\* interruptions_total, which is at least the sum of interruptions_by_agent,
\* interruptions_by_customer and interruptions_by_other, with equality
\* exactly when no interrupting utterance has speaker UNKNOWN.
C30_InterruptionCountsAreOrdered ==
    AfterCounters =>
        LET call == ret.call_metrics
            by_speaker == call.interruptions_by_agent
                             + call.interruptions_by_customer
                             + call.interruptions_by_other
        IN /\ ret.interaction_metrics.interruptions_count
                 >= call.negative_gaps_count
           /\ call.negative_gaps_count >= call.interruptions_total
           /\ call.interruptions_total >= by_speaker
           /\ call.interruptions_total = by_speaker <=>
                 \A i \in InterruptingPairs(arg) :
                     arg[i + 1].speaker # "UNKNOWN"

\* AGENT [0,3), CUSTOMER [3,7), UNKNOWN [5,7): a touching pair counts only
\* as a small gap, and the interruption by UNKNOWN is in the total alone.
C30_Witness ==
    /\ AfterCounters
    /\ Len(arg) = 3
    /\ ret.interaction_metrics.interruptions_count = 2
    /\ ret.call_metrics.negative_gaps_count = 1
    /\ ret.call_metrics.interruptions_total = 1
    /\ ret.call_metrics.interruptions_by_agent = 0
    /\ ret.call_metrics.interruptions_by_customer = 0
    /\ ret.call_metrics.interruptions_by_other = 0
    /\ arg[3].speaker = "UNKNOWN"

====
